---- MODULE Spec2Model ----
(***************************************************************************)
(* Model of the PythonHttpTracker crawl engine.                            *)
(*                                                                         *)
(*   - the Store: src/src/database_manager.py (DatabaseManager)            *)
(*   - the shared engine of the wiki-API driver: src/src/base_crawler.py   *)
(*     (BaseCrawler.crawl, _process_url, should_download, normalize_url)   *)
(*   - the wiki-API driver's fetch outcomes:                               *)
(*     src/src/confluence_api_crawler.py (fetch_page, _fetch_space_pages)  *)
(*   - the engine of the HTML driver: src/src/web_crawler.py               *)
(*     (WebCrawler.download_recursive, download_url_parallel)              *)
(*   - the counters: src/src/progress_tracker.py (ProgressTracker)         *)
(*   - the choice of the driver: src/src/crawler_orchestrator.py           *)
(*                                                                         *)
(* Twelve specifications are defined:                                      *)
(*   Spec       the BaseCrawler engine running against a finite site,      *)
(*              with the process being stopped and a fresh engine started  *)
(*   SpecLive   the same engine with fair scheduling of the dispatcher     *)
(*              and of the pool's workers, on one more site                *)
(*   SpecWeb    the WebCrawler engine running against a finite site        *)
(*   SpecStore  arbitrary sequences of calls of the Store's operations     *)
(*   SpecRes    WebCrawler's worker threads downloading page resources     *)
(*   SpecAttach the BaseCrawler engine on a site whose start page has      *)
(*              attachments, some of which answer 404                      *)
(*   SpecDriver CrawlerOrchestrator.create_crawler on every configuration  *)
(*   SpecTitles the BaseCrawler engine on a site whose pages are addressed *)
(*              by title and by /content/<id>, each with an attachment     *)
(*   SpecTwins  the BaseCrawler engine on a site whose space index lists   *)
(*              one page under two fragments                               *)
(*   SpecRace   the BaseCrawler engine on a site whose space index lists a *)
(*              page that is fetched at the same time as the index         *)
(*   SpecPolicy the BaseCrawler engine on a site with a link that the URL  *)
(*              policy rejects                                             *)
(*   SpecRuns   two runs of the BaseCrawler engine from an empty Store,    *)
(*              with a clock that advances                                 *)
(***************************************************************************)
EXTENDS Integers, Sequences, FiniteSets, TLC

(***************************************************************************)
(* Bounds of the model.                                                    *)
(***************************************************************************)
MaxWorkers  == 2    \* max_workers is 1 or MaxWorkers
MaxDepthCfg == 2    \* max_depth is 1 or MaxDepthCfg
MaxRestarts == 1    \* how often the process is stopped and started again
FetchCap    == 2    \* fetches of one clean URL that are counted
MaxRetry    == 2    \* cap of retry_count in SpecStore
MaxCalls    == 4    \* number of Store calls in a SpecStore behaviour
StatCap     == 2    \* value at which the counters of the progress sink saturate

(***************************************************************************)
(* URLs.  A URL is the result of urlparse: host (netloc), path (the list   *)
(* of its segments), query and fragment; "" is the empty component.        *)
(***************************************************************************)
Host == "wiki.example.com"

URL(path, query, frag) ==
    [host |-> Host, path |-> path, query |-> query, frag |-> frag]

\* BaseCrawler.normalize_url: scheme://netloc/path[?query], fragment dropped
normalize_url(url) == [url EXCEPT !.frag = ""]

\* a nullable column or argument: NULL, or Some(v)
NULL    == << >>
Some(v) == << v >>

(***************************************************************************)
(* The site the wiki-API driver crawls.  Page(n) is the page with id n;    *)
(* Overview is the space overview URL, which fetch_page answers with a     *)
(* space index.                                                            *)
(***************************************************************************)
Page(n)        == URL(<<"wiki", "spaces", "AR", "pages", n>>, "", "")
PageAt(n, f)   == URL(<<"wiki", "spaces", "AR", "pages", n>>, "", f)
Overview       == URL(<<"wiki", "spaces", "AR", "overview">>, "", "")

Home == Page("100001")
PgA  == Page("100002")
PgP  == Page("100003")
PgQ  == Page("100004")
PgR  == Page("100005")
\* a page of the same host outside the wiki
Blog == URL(<<"blog", "post">>, "", "")
\* a page addressed by its title, and a page addressed as /content/<id>/<title>
Guide == URL(<<"wiki", "display", "AR", "Guide">>, "", "")
Notes == URL(<<"wiki", "content", "42", "Notes">>, "", "")
\* the page of another space with the title of Guide
OpsGuide == URL(<<"wiki", "display", "OPS", "Guide">>, "", "")

Sites == {"tree", "space"}

\* the site of SpecAttach: a start page with attachments and one link
AttachSites == {"attach"}

\* the site of SpecTitles: the start page links to two pages addressed by
\* the same title in two spaces and to a page addressed as
\* /content/<id>/<title>; the linked pages of the wiki's own space have an
\* attachment
TitleSites == {"titles"}

\* the site of SpecTwins: the space index lists one page twice, under two
\* fragments
TwinSites == {"twins"}

\* the site of SpecRace: the start page links to a page and to the space
\* index, and the space index lists that page under a fragment
RaceSites == {"race"}

\* the site of SpecPolicy: the start page links to a page of the same host
\* whose path matches no valid_url_pattern
PolicySites == {"policy"}

\* the site of SpecRuns: a start page and the one page it links to
RunSites == {"pair"}

\* the sites of SpecLive: "loop" is a space whose page list contains the
\* space overview URL itself
LiveSites == Sites \cup {"loop"}

\* the start URL configured for each site (website.start_url)
start_url_of(s) ==
    IF s \in {"tree", "attach", "pair", "policy", "titles", "race"} THEN Home
    ELSE Overview

\* what _extract_links_from_api_response / _fetch_space_pages return for a
\* clean URL of the site: the list of raw links, fragments kept
SiteLinks(s, c) ==
    IF s = "tree" THEN
        CASE c = Home -> << PgA, PageAt("100003", "x"), PageAt("100003", "y") >>
          [] c = PgA  -> << PageAt("100003", "x"), Overview >>
          [] c = PgP  -> << PgQ, PageAt("100001", "top") >>
          [] c = Overview -> << PgA, PgR >>
          [] c = PgR  -> << PgQ >>
          [] OTHER    -> << >>
    ELSE IF s = "loop" THEN
        CASE c = Overview -> << PgA, Overview >>
          [] OTHER    -> << >>
    ELSE IF s \in {"attach", "pair"} THEN
        CASE c = Home -> << PgA >>
          [] OTHER    -> << >>
    ELSE IF s = "titles" THEN
        CASE c = Home -> << Guide, Notes, OpsGuide >>
          [] OTHER    -> << >>
    ELSE IF s = "twins" THEN
        CASE c = Overview -> << PageAt("100003", "x"), PageAt("100003", "y") >>
          [] OTHER    -> << >>
    ELSE IF s = "race" THEN
        CASE c = Home     -> << PgA, Overview >>
          [] c = Overview -> << PageAt("100002", "x") >>
          [] c = PgA      -> << PgP >>
          [] OTHER        -> << >>
    ELSE IF s = "policy" THEN
        CASE c = Home -> << PgA, Blog >>
          [] c = PgA  -> << PgP >>
          [] OTHER    -> << >>
    ELSE
        CASE c = Overview -> << PgA, PgP >>
          [] c = PgA  -> << PageAt("100003", "x"), PgQ >>
          [] c = PgP  -> << PgQ >>
          [] c = PgQ  -> << PgR >>
          [] OTHER    -> << >>

\* ConfluenceAPICrawler.fetch_page, the space-overview test: '/spaces/' in
\* url and ('/overview' in url or url.endswith(space))
is_space_url(url) ==
    /\ \E i \in 1..Len(url.path) : url.path[i] = "spaces"
    /\ \/ \E i \in 1..Len(url.path) : url.path[i] = "overview"
       \/ /\ url.query = "" /\ url.frag = ""
          /\ Len(url.path) > 0 /\ url.path[Len(url.path)] = "AR"

RawURLs ==
    {Home, PgA, PgP, PgQ, PgR, Overview, Blog, Guide, Notes, OpsGuide,
     PageAt("100003", "x"), PageAt("100003", "y"), PageAt("100001", "top"),
     PageAt("100002", "x")}

CleanURLs == {normalize_url(u) : u \in RawURLs}

(***************************************************************************)
(* The Store (DatabaseManager).  discovered_urls is the table in rowid     *)
(* order; its UNIQUE column is url, the raw URL.  downloaded_documents     *)
(* and url_mappings are keyed by their UNIQUE columns (url, clean_url).    *)
(***************************************************************************)
VARIABLES discovered_urls, downloaded_documents, url_mappings

storeVars == << discovered_urls, downloaded_documents, url_mappings >>

\* the wiki tables of the same database: confluence_metadata (url UNIQUE) as
\* the set of its urls, confluence_attachments (id INTEGER PRIMARY KEY
\* AUTOINCREMENT and no other key) as the sequence of its
\* (page_url, attachment_id) rows in the order of their ids
VARIABLES confluence_metadata, confluence_attachments

wikiVars == << confluence_metadata, confluence_attachments >>

\* the table downloaded_resources (url UNIQUE): the URLs of its rows
VARIABLE resources_table
\* WebCrawler's resource state: the sets downloaded_resources and
\* active_resources, the dict transversal_resources (its keys), the per-URL
\* locks of resource_locks that are held, and the files of the shared
\* resource directory
VARIABLES downloaded_resources, active_resources, transversal_resources,
          held_locks, resource_files
\* the worker threads downloading resources and, per resource, how often it was
\* fetched and how often add_downloaded_resource was called for it
VARIABLES res_workers, res_gets, res_persists
resMemVars == << downloaded_resources, active_resources, transversal_resources,
                held_locks, resource_files, res_workers, res_gets, res_persists >>
resVars == << resources_table, resMemVars >>

ResourceThreads == 2    \* worker threads that download resources
MaxResCalls     == 2    \* calls of download_single_resource made by one thread

\* a resource URL: the directory and the last segment of its path
Res(dir, name) == [dir |-> dir, name |-> name]
ResURLs == {Res("a", "batch.css"), Res("b", "batch.css")}

\* download_single_resource, lines 929-936: the file is named by the last
\* path segment and lies in the shared resource directory
resource_path(r) == r.name

\* a thread between two calls of download_single_resource
ResIdle == [pc |-> "idle", url |-> NULL, calls |-> 0, result |-> NULL]

\* the engine has started no resource download; WebCrawler.__init__ loads
\* the two resource collections from the Store
NoResources ==
    /\ resources_table = {}
    /\ downloaded_resources = {}
    /\ active_resources = {}
    /\ transversal_resources = {}
    /\ held_locks = {}
    /\ resource_files = {}
    /\ res_workers = [w \in 1..ResourceThreads |-> ResIdle]
    /\ res_gets = [r \in ResURLs |-> 0]
    /\ res_persists = [r \in ResURLs |-> 0]

\* clock is the day the wall clock shows; artifacts are the page files
\* save_page has written, one record per page directory with the contents of
\* index.html, index.md and index.yml (NULL: not written); first_run holds
\* the artifacts of the run that was completed before the present one
VARIABLES clock, artifacts, first_run
artVars == << clock, artifacts, first_run >>

MaxDays    == 1    \* days the clock can advance
UpdatedDay == 0    \* the day of history.lastUpdated.when of every page

NoArtifacts ==
    /\ clock = 0
    /\ artifacts = {}
    /\ first_run = NULL

Statuses == {"pending", "downloading", "completed", "failed"}

\* a Store value: the three tables together
StoreOf(d, docs, maps) == [discovered |-> d, documents |-> docs, mappings |-> maps]
CurStore == StoreOf(discovered_urls, downloaded_documents, url_mappings)
EmptyStore == StoreOf(<< >>, {}, {})

\* schema: url TEXT UNIQUE NOT NULL
HasRow(d, url) == \E i \in 1..Len(d) : d[i].url = url

\* DatabaseManager.add_discovered_url: INSERT OR IGNORE ... 'pending'
add_discovered_url(st, url, clean_url, depth, parent_url) ==
    IF HasRow(st.discovered, url)
    THEN st
    ELSE [st EXCEPT !.discovered =
            Append(@, [url |-> url, clean_url |-> clean_url, depth |-> depth,
                       status |-> "pending", retry_count |-> 0,
                       error_message |-> NULL, parent_url |-> parent_url])]

\* its return value: cursor.rowcount > 0
add_discovered_url_result(st, url) == ~HasRow(st.discovered, url)

\* DatabaseManager.add_discovered_urls_batch: executemany of the same INSERT
RECURSIVE add_discovered_urls_batch(_, _)
add_discovered_urls_batch(st, urls_data) ==
    IF urls_data = << >> THEN st
    ELSE LET r == Head(urls_data)
         IN  add_discovered_urls_batch(
                 add_discovered_url(st, r[1], r[2], r[3], r[4]), Tail(urls_data))

\* DatabaseManager.mark_url_downloading: UPDATE ... WHERE clean_url = ? AND
\* status = 'pending'
mark_url_downloading(st, clean_url) ==
    [st EXCEPT !.discovered =
        [i \in 1..Len(@) |->
            IF @[i].clean_url = clean_url /\ @[i].status = "pending"
            THEN [@[i] EXCEPT !.status = "downloading"] ELSE @[i]]]

mark_url_downloading_result(st, clean_url) ==
    \E i \in 1..Len(st.discovered) :
        st.discovered[i].clean_url = clean_url /\ st.discovered[i].status = "pending"

\* DatabaseManager.mark_url_completed: UPDATE discovered_urls SET status =
\* 'completed' WHERE clean_url = ?; INSERT OR REPLACE INTO downloaded_documents
\* (url = clean_url); INSERT OR REPLACE INTO url_mappings
mark_url_completed(st, clean_url, local_path, depth) ==
    [discovered |->
        [i \in 1..Len(st.discovered) |->
            IF st.discovered[i].clean_url = clean_url
            THEN [st.discovered[i] EXCEPT !.status = "completed"]
            ELSE st.discovered[i]],
     documents |->
        {r \in st.documents : r.url # clean_url} \cup
        {[url |-> clean_url, clean_url |-> clean_url,
          local_path |-> local_path, depth |-> depth]},
     mappings |->
        {r \in st.mappings : r.clean_url # clean_url} \cup
        {[clean_url |-> clean_url, local_path |-> local_path]}]

\* DatabaseManager.mark_url_failed: UPDATE discovered_urls SET status =
\* 'failed', error_message = ?, retry_count = retry_count + 1 WHERE clean_url = ?
mark_url_failed(st, clean_url, error_message) ==
    [st EXCEPT !.discovered =
        [i \in 1..Len(@) |->
            IF @[i].clean_url = clean_url
            THEN [@[i] EXCEPT !.status = "failed",
                              !.error_message = Some(error_message),
                              !.retry_count = @ + 1]
            ELSE @[i]]]

\* DatabaseManager.reset_progress: DELETE FROM the four progress tables
reset_progress(st) == EmptyStore

\* DatabaseManager.get_downloaded_urls: SELECT clean_url FROM downloaded_documents
get_downloaded_urls(st) == {r.clean_url : r \in st.documents}

\* DatabaseManager.get_total_downloaded_documents: SELECT COUNT(*) FROM
\* discovered_urls WHERE status = 'completed'
get_total_downloaded_documents(st) ==
    Cardinality({i \in 1..Len(st.discovered) : st.discovered[i].status = "completed"})

\* DatabaseManager.get_total_failed_urls: SELECT COUNT(*) FROM
\* discovered_urls WHERE status = 'failed'
get_total_failed_urls(st) ==
    Cardinality({i \in 1..Len(st.discovered) : st.discovered[i].status = "failed"})

\* DatabaseManager.save_confluence_metadata: INSERT OR REPLACE INTO
\* confluence_metadata (url, ...)
save_confluence_metadata(tbl, url) == tbl \cup {url}

\* DatabaseManager.save_confluence_attachments: one INSERT OR REPLACE INTO
\* confluence_attachments per attachment of the list
save_confluence_attachments(tbl, page_url, attachments) ==
    tbl \o [i \in 1..Len(attachments) |-> << page_url, attachments[i] >>]

\* rows in ORDER BY depth ASC, discovered_at ASC: row i comes before row j
PendingBefore(d, i, j) ==
    \/ d[i].depth < d[j].depth
    \/ d[i].depth = d[j].depth /\ i < j

\* DatabaseManager.get_pending_urls (no limit): SELECT url, depth ... WHERE
\* status = 'pending' ORDER BY depth ASC, discovered_at ASC
get_pending_urls(st) ==
    LET d   == st.discovered
        idx == {i \in 1..Len(d) : d[i].status = "pending"}
        rank(i) == Cardinality({j \in idx : PendingBefore(d, j, i)}) + 1
    IN  [k \in 1..Cardinality(idx) |->
            LET i == CHOOSE i \in idx : rank(i) = k
            IN  << d[i].url, d[i].depth >>]

\* DatabaseManager.get_pending_urls(limit): "if limit:" appends LIMIT, so
\* None and 0 both leave the query without one
Limits == {NULL, Some(0), Some(1)}

get_pending_urls_limit(st, limit) ==
    LET all == get_pending_urls(st)
    IN  IF limit = NULL \/ limit[1] = 0 \/ limit[1] >= Len(all)
        THEN all ELSE SubSeq(all, 1, limit[1])


(***************************************************************************)
(* Path Mapper (BaseCrawler.generate_local_path).  A local path is the     *)
(* list of its components below the working directory.                     *)
(***************************************************************************)
\* segments that consist of digits only, and those with six or more digits
DigitSegments     == {"100001", "100002", "100003", "100004", "100005", "42"}
LongDigitSegments == DigitSegments \ {"42"}

\* the page id a query string of the form pageId=<digits> carries
QueryPageId(q) == IF q = "pageId=100006" THEN Some("100006") ELSE NULL

\* BaseCrawler._extract_page_identifier: r'/pages/(\d+)', r'pageId=(\d+)',
\* r'/(\d{6,})' tried in this order; '' (NULL) when none matches
extract_page_identifier(url) ==
    LET p  == url.path
        m1 == {i \in 1..(Len(p) - 1) : p[i] = "pages" /\ p[i + 1] \in DigitSegments}
        m3 == {i \in 1..Len(p) : p[i] \in LongDigitSegments}
        min(S) == CHOOSE i \in S : \A j \in S : i <= j
    IN  IF m1 # {} THEN Some(p[min(m1) + 1])
        ELSE IF QueryPageId(url.query) # NULL THEN QueryPageId(url.query)
        ELSE IF m3 # {} THEN Some(p[min(m3)])
        ELSE NULL

\* ConfluenceAPICrawler._resolve_page_id_via_title: the id of the first page
\* the CQL search title~"<last path segment>" returns, None when it returns
\* none
resolve_page_id_via_title(url) ==
    IF url.path # << >> /\ url.path[Len(url.path)] = "Guide"
    THEN Some("100003")
    ELSE NULL

\* ConfluenceAPICrawler._extract_page_id: r'/pages/(\d+)', r'pageId=(\d+)',
\* r'/content/(\d+)', r'/(\d{6,})' tried in this order, then the title search
extract_page_id(url) ==
    LET p  == url.path
        m1 == {i \in 1..(Len(p) - 1) : p[i] = "pages" /\ p[i + 1] \in DigitSegments}
        m2 == {i \in 1..(Len(p) - 1) : p[i] = "content" /\ p[i + 1] \in DigitSegments}
        m3 == {i \in 1..Len(p) : p[i] \in LongDigitSegments}
        min(S) == CHOOSE i \in S : \A j \in S : i <= j
    IN  IF m1 # {} THEN Some(p[min(m1) + 1])
        ELSE IF QueryPageId(url.query) # NULL THEN QueryPageId(url.query)
        ELSE IF m2 # {} THEN Some(p[min(m2) + 1])
        ELSE IF m3 # {} THEN Some(p[min(m3)])
        ELSE resolve_page_id_via_title(url)

\* variant of generate_local_path whose directory depends on the depth
generate_local_path_ByDepth(url, depth) ==
    << "out", "spaces", "AR", "pages", << "depth", depth >>, "index.md" >>

\* BaseCrawler.generate_local_path with output_dir "out", space "AR",
\* output_format markdown; the depth argument is not used by the code
generate_local_path(url, depth) ==
    LET page_id  == extract_page_identifier(url)
        page_dir == IF page_id # NULL THEN page_id[1]
                    ELSE IF url.path # << >> THEN url.path[Len(url.path)]
                    ELSE << "page_", url >>
    IN  << "out", "spaces", "AR", "pages", page_dir, "index.md" >>

(***************************************************************************)
(* The engine (BaseCrawler).                                               *)
(*   max_depth, max_workers, site   the configuration of the run           *)
(*   download_queue     deque of << raw url, depth >>                      *)
(*   downloaded_urls    in-memory set of clean URLs                        *)
(*   active_downloads   in-memory set of raw URLs                          *)
(*   futures            the jobs submitted to the pool, in submission      *)
(*                      order; pc is the worker's position in _process_url *)
(*   completed          the futures found done in this loop iteration      *)
(*   phase              the dispatcher's position in crawl()               *)
(* History of the run, kept for the properties:                            *)
(*   epoch              number of times the process was started again      *)
(*   fetches            fetch_page calls per clean URL in this run         *)
(*   any_failed         some job ended in failure, in this or an earlier   *)
(*                      run                                                *)
(*   last_call          the last Store call of SpecStore and its result    *)
(* The progress sink (ProgressTracker.stats):                               *)
(*   stats              urls_downloaded, urls_failed, last_error           *)
(* The output directory:                                                   *)
(*   files              the local paths at which save_page has written     *)
(***************************************************************************)
VARIABLES max_depth, max_workers, site,
          download_queue, downloaded_urls, active_downloads,
          futures, completed, phase,
          epoch, fetches, any_failed, last_call, stats, files

cfgVars    == << max_depth, max_workers, site >>
engineVars == << download_queue, downloaded_urls, active_downloads,
                 futures, completed, phase >>
histVars   == << epoch, fetches, any_failed >>
apiVars    == << last_call >>
trackVars  == << stats >>
fsVars     == << files >>
vars       == << storeVars, cfgVars, apiVars, engineVars, histVars, trackVars,
                 fsVars, wikiVars, resVars, artVars >>

start_url == start_url_of(site)

\* ProgressTracker.__init__: the counters at 0, last_error ''
ZeroStats == [urls_downloaded |-> 0, urls_failed |-> 0, last_error |-> NULL]

\* a counter of the progress sink, counted up to StatCap
StatValue(n) == IF n > StatCap THEN StatCap ELSE n

\* ProgressTracker.update_stat(key): stats[key] += 1
StatInc(st, key) == [st EXCEPT ![key] = StatValue(@ + 1)]

\* a host name as the sequence of the pieces of its text, cut so that
\* "x in netloc" is "the pieces of x are consecutive pieces of netloc"
Pieces(h) ==
    CASE h = ""                 -> << >>
      [] h = "example.com"      -> << "example.com" >>
      [] h = "wiki.example.com" -> << "wiki.", "example.com" >>
      [] h = "notexample.com"   -> << "not", "example.com" >>
      [] h = "other.com"        -> << "other.com" >>

\* Python's "a in b" on two host names
InText(a, b) ==
    LET x == Pieces(a)
        y == Pieces(b)
    IN  \E i \in 0..(Len(y) - Len(x)) : SubSeq(y, i + 1, i + Len(x)) = x

\* re.search(pattern, url) for a pattern '/<segment>': the segment is one of
\* the path's
Matches(pattern, url) == \E i \in 1..Len(url.path) : url.path[i] = pattern

\* website.base_domain, exclude_patterns and valid_url_patterns of the crawl
\* the engine specifications run: every URL of the sites passes them
CrawlConfig ==
    [base_domain |-> "example.com", exclude_patterns |-> {"admin"},
     valid_url_patterns |-> {"wiki"}]

\* BaseCrawler.should_download under the configuration cfg: the depth limit,
\* the downloaded set and the active set, tested with the raw URL as queued,
\* then the domain, the exclude patterns and the valid patterns
should_download_cfg(cfg, url, depth) ==
    /\ ~(depth > max_depth)
    /\ url \notin downloaded_urls
    /\ url \notin active_downloads
    /\ ~(cfg.base_domain # "" /\ ~InText(cfg.base_domain, url.host))
    /\ ~\E pattern \in cfg.exclude_patterns : Matches(pattern, url)
    /\ cfg.valid_url_patterns # {} =>
          \E pattern \in cfg.valid_url_patterns : Matches(pattern, url)

should_download(url, depth) == should_download_cfg(CrawlConfig, url, depth)

\* should_download, lines 127-129 and 139-157: the tests that read only the
\* URL, the depth and the configuration
url_policy(cfg, url, depth) ==
    /\ ~(depth > max_depth)
    /\ ~(cfg.base_domain # "" /\ ~InText(cfg.base_domain, url.host))
    /\ ~\E pattern \in cfg.exclude_patterns : Matches(pattern, url)
    /\ cfg.valid_url_patterns # {}
          => \E pattern \in cfg.valid_url_patterns : Matches(pattern, url)

SetStore(st) ==
    /\ discovered_urls' = st.discovered
    /\ downloaded_documents' = st.documents
    /\ url_mappings' = st.mappings

\* BaseCrawler.__init__ of a fresh process on the Store st
NewEngine(st) ==
    /\ download_queue = << >>
    /\ downloaded_urls = get_downloaded_urls(st)
    /\ active_downloads = {}
    /\ futures = << >>
    /\ completed = << >>
    /\ phase = "init"
    /\ stats = ZeroStats

Init ==
    /\ discovered_urls = << >>
    /\ downloaded_documents = {}
    /\ url_mappings = {}
    /\ max_depth \in {1, MaxDepthCfg}
    /\ max_workers \in {1, MaxWorkers}
    /\ site \in Sites
    /\ NewEngine(EmptyStore)
    /\ epoch = 0
    /\ fetches = [c \in CleanURLs |-> 0]
    /\ any_failed = FALSE
    /\ last_call = NULL
    /\ files = {}
    /\ confluence_metadata = {}
    /\ confluence_attachments = << >>
    /\ NoResources
    /\ NoArtifacts

\* crawl(), lines 258-290: the queue is seeded from the pending rows, or,
\* when there is none, from the start URL, which is then also inserted
CrawlStart ==
    /\ phase = "init"
    /\ LET pending_urls == get_pending_urls(CurStore)
       IN  IF pending_urls # << >>
           THEN /\ download_queue' = pending_urls
                /\ stats' = [stats EXCEPT
                       !.urls_downloaded =
                           StatValue(get_total_downloaded_documents(CurStore)),
                       !.urls_failed = StatValue(get_total_failed_urls(CurStore))]
                /\ UNCHANGED storeVars
           ELSE /\ download_queue' = << << start_url, 0 >> >>
                /\ UNCHANGED stats
                /\ SetStore(add_discovered_url(CurStore, start_url,
                                normalize_url(start_url), 0, NULL))
    /\ phase' = "submit"
    /\ UNCHANGED << cfgVars, apiVars, fsVars, wikiVars, resVars, artVars, downloaded_urls, active_downloads, futures,
                    completed, histVars >>

\* a job of the pool: _process_url(url, depth) about to call fetch_page
NewJob(url, depth) ==
    [url |-> url, depth |-> depth, pc |-> "fetch", success |-> FALSE,
     is_space_index |-> FALSE, attachments |-> {}, gone |-> {}]

\* variant of submit_capacity that never holds the dispatcher back
submit_capacity_Unbounded == TRUE

\* crawl(), line 299: len(futures) < self.max_workers
submit_capacity == Len(futures) < max_workers

\* crawl(), lines 299-319, one iteration of the submit loop: pop the head of
\* the queue, drop it when should_download says no, otherwise mark it active
\* and submit it
Submit ==
    /\ phase = "submit"
    /\ download_queue # << >> /\ submit_capacity
    /\ LET url   == Head(download_queue)[1]
           depth == Head(download_queue)[2]
       IN  /\ download_queue' = Tail(download_queue)
           /\ IF should_download(url, depth)
              THEN /\ active_downloads' = active_downloads \cup {url}
                   /\ futures' = Append(futures, NewJob(url, depth))
              ELSE UNCHANGED << active_downloads, futures >>
    /\ UNCHANGED << storeVars, cfgVars, apiVars, fsVars, wikiVars, resVars, artVars, trackVars, downloaded_urls, completed, phase,
                    histVars >>

\* crawl(), lines 321-325: the submit loop has ended; collect the futures
\* that are done, in the order of the futures dict
Collect ==
    /\ phase = "submit"
    /\ ~(download_queue # << >> /\ submit_capacity)
    /\ completed' = SelectSeq(futures, LAMBDA j : j.pc = "done")
    /\ phase' = "process"
    /\ UNCHANGED << storeVars, cfgVars, apiVars, fsVars, wikiVars, resVars, artVars, trackVars, download_queue, downloaded_urls,
                    active_downloads, futures, histVars >>


\* the links a successful fetch of url returns
LinksOf(url) == SiteLinks(site, normalize_url(url))

\* what can become of one call of _process_url before it touches the shared
\* state: fetch_page fails, an exception is raised and caught, save_page
\* returns False before its first write or after it (never for a space
\* index, which save_page skips), or all of it succeeds
Outcomes(url) ==
    IF is_space_url(url) THEN {"ok", "fetch_failed", "exception"}
    ELSE {"ok", "fetch_failed", "save_failed", "save_partial", "exception"}

SetJob(k, job) == futures' = [futures EXCEPT ![k] = job]

\* variant of save_success that goes on although save_page returned False
save_success_Ignored(outcome) == outcome \in {"ok", "save_failed"}

\* _process_url, lines 423-425: the worker goes on to record the page only
\* when fetch_page succeeded and save_page returned True
save_success(outcome) == outcome = "ok"

Bump(f, c) == [f EXCEPT ![c] = IF @ < FetchCap THEN @ + 1 ELSE @]

\* the attachments the API lists for a page (child/attachment)
Attachments(c) ==
    IF site = "attach" /\ c = Home THEN {"att1", "att2"}
    ELSE IF site = "titles" /\ c \in {Guide, Notes} THEN {"att1"}
    ELSE {}
AllAttachments == {"att1", "att2"}

\* _fetch_attachments, lines 386-396: the attachments of a set in the order
\* in which the API lists them
attachment_list(attachments) ==
    SelectSeq(<< "att1", "att2" >>, LAMBDA a : a \in attachments)

\* _process_attachment, lines 448-452: the file of an attachment of the
\* page whose id fetch_page took from _extract_page_id
attachment_path(url, a) ==
    << "out", "spaces", "AR", "pages", extract_page_id(url)[1],
       "attachments", a >>

\* variant of fetch_attachments that lists every attachment of the page
fetch_attachments_All(c, gone) == Attachments(c)

\* _fetch_attachments, lines 393-396, with _process_attachment, lines
\* 463-499: an attachment is listed only if its download returned 200; gone
\* are the attachments whose download returned 404
fetch_attachments(c, gone) == Attachments(c) \ gone

\* save_page, line 683: the page's HTML with the attachment URLs rewritten
page_html(c, attachments) == [body |-> c, attachments |-> attachments]

\* _convert_to_markdown, lines 846-867: a header with the title, the page id
\* and history.updated.when, then the converted body
convert_to_markdown(html_content, c) ==
    [title |-> c, id |-> c, last_updated |-> UpdatedDay, body |-> html_content]

\* ConfluenceMetadata._calculate_derived_stats, lines 120-146:
\* days_since_update is (datetime.now(utc) - updated).days
calculate_derived_stats(attachments, now) ==
    [has_attachments |-> attachments # {},
     attachment_count |-> Cardinality(attachments),
     days_since_update |-> Some(now - UpdatedDay)]

\* ConfluenceMetadata.generate_yaml, lines 48-107
generate_yaml(c, attachments, now) ==
    [id |-> c, updated |-> UpdatedDay,
     derived |-> calculate_derived_stats(attachments, now),
     attachments |-> attachments]

\* the record of the page directory of local_path, all NULL if no file of it
\* was written
ArtifactsAt(local_path) ==
    IF \E r \in artifacts : r.path = local_path
    THEN CHOOSE r \in artifacts : r.path = local_path
    ELSE [path |-> local_path, html |-> NULL, md |-> NULL, yml |-> NULL]

\* save_page, lines 685-733: index.html, index.md and index.yml are written
\* in this order; when it fails after its first writes (complete is FALSE)
\* index.yml is not written
save_page(c, local_path, attachments, now, complete) ==
    LET html_content == page_html(c, attachments)
        before       == ArtifactsAt(local_path)
    IN  {r \in artifacts : r.path # local_path} \cup
        {[path |-> local_path,
          html |-> Some(html_content),
          md   |-> Some(convert_to_markdown(html_content, c)),
          yml  |-> IF complete THEN Some(generate_yaml(c, attachments, now))
                   ELSE before.yml]}

\* _process_url, lines 409-429 and 447-459: fetch_page, generate_local_path
\* and save_page.  fetch_page downloads the attachments and writes the file
\* of each one that answered 200; save_page's last step stores the page's
\* metadata and the listed attachments under the raw URL.  A failure makes
\* the worker return {'success': False} without any Store call; a space
\* index returns success without being marked as downloaded.
WorkerFetch(k, outcome, gone) ==
    /\ k \in 1..Len(futures)
    /\ futures[k].pc = "fetch"
    /\ outcome \in Outcomes(futures[k].url)
    /\ gone \subseteq Attachments(normalize_url(futures[k].url))
    /\ outcome = "fetch_failed" => gone = {}
    /\ LET job == futures[k]
           idx == is_space_url(job.url)
           attachments == IF idx \/ outcome = "fetch_failed" THEN {}
                          ELSE fetch_attachments(normalize_url(job.url), gone)
           fetched == [job EXCEPT !.attachments = attachments, !.gone = gone]
       IN  /\ fetches' = Bump(fetches, normalize_url(job.url))
           /\ files' = files
                  \cup (IF outcome # "fetch_failed"
                        THEN {attachment_path(job.url, a) :
                                 a \in Attachments(normalize_url(job.url)) \ gone}
                        ELSE {})
                  \cup (IF ~idx /\ outcome \in {"ok", "save_partial"}
                        THEN {generate_local_path(job.url, job.depth)}
                        ELSE {})
           /\ artifacts' =
                  IF ~idx /\ outcome \in {"ok", "save_partial"}
                  THEN save_page(normalize_url(job.url),
                                 generate_local_path(job.url, job.depth),
                                 attachments, clock, outcome = "ok")
                  ELSE artifacts
           /\ UNCHANGED << clock, first_run >>
           /\ confluence_metadata' =
                  IF ~idx /\ outcome = "ok"
                  THEN save_confluence_metadata(confluence_metadata, job.url)
                  ELSE confluence_metadata
           /\ confluence_attachments' =
                  IF ~idx /\ outcome = "ok"
                  THEN save_confluence_attachments(confluence_attachments,
                                                   job.url,
                                                   attachment_list(attachments))
                  ELSE confluence_attachments
           /\ IF ~save_success(outcome)
              THEN /\ SetJob(k, [fetched EXCEPT !.pc = "done"])
                   /\ any_failed' = TRUE
              ELSE IF idx
              THEN /\ SetJob(k, [fetched EXCEPT !.pc = "done", !.success = TRUE,
                                                !.is_space_index = TRUE])
                   /\ UNCHANGED any_failed
              ELSE /\ SetJob(k, [fetched EXCEPT !.pc = "add"])
                   /\ UNCHANGED any_failed
    /\ UNCHANGED << storeVars, cfgVars, apiVars, trackVars, resVars, download_queue,
                    downloaded_urls, active_downloads, completed, phase, epoch >>

\* _process_url, line 432: self.downloaded_urls.add(self.normalize_url(url))
WorkerAdd(k) ==
    /\ k \in 1..Len(futures)
    /\ futures[k].pc = "add"
    /\ downloaded_urls' = downloaded_urls \cup {normalize_url(futures[k].url)}
    /\ SetJob(k, [futures[k] EXCEPT !.pc = "mark"])
    /\ UNCHANGED << storeVars, cfgVars, apiVars, fsVars, wikiVars, resVars, artVars, trackVars, download_queue, active_downloads,
                    completed, phase, histVars >>

\* _process_url, lines 435-446: db.mark_url_completed(clean_url, local_path,
\* file_size), depth not passed, and the worker returns success
WorkerMark(k) ==
    /\ k \in 1..Len(futures)
    /\ futures[k].pc = "mark"
    /\ LET job == futures[k]
       IN  /\ SetStore(mark_url_completed(CurStore, normalize_url(job.url),
                            generate_local_path(job.url, job.depth), NULL))
           /\ SetJob(k, [job EXCEPT !.pc = "done", !.success = TRUE])
    /\ UNCHANGED << cfgVars, apiVars, fsVars, wikiVars, resVars, artVars, trackVars, download_queue, downloaded_urls,
                    active_downloads, completed, phase, histVars >>

\* crawl(), lines 354-364, for the links from position i on: a link whose
\* normalized form is not in downloaded_urls is appended to the queue and
\* inserted into the Store.  The value is << queue, store >>.
RECURSIVE AddLinks(_, _, _, _, _, _)
AddLinks(links, i, next_depth, parent, queue, st) ==
    IF i > Len(links) THEN << queue, st >>
    ELSE LET link            == links[i]
             normalized_link == normalize_url(link)
         IN  IF normalized_link \notin downloaded_urls
             THEN AddLinks(links, i + 1, next_depth, parent,
                           Append(queue, << link, next_depth >>),
                           add_discovered_url(st, link, normalized_link,
                                              next_depth, Some(parent)))
             ELSE AddLinks(links, i + 1, next_depth, parent, queue, st)

\* variant of NextDepth that treats a space index like a page
NextDepth_IndexAsPage(is_space_index, depth) == depth + 1

\* crawl(), line 352: 0 for a space index, otherwise depth + 1
NextDepth(is_space_index, depth) == IF is_space_index THEN 0 ELSE depth + 1

\* variant of ShouldAddLinks that adds the links of a page whatever its depth
ShouldAddLinks_NoDepthGuard(is_space_index, links, depth) ==
    is_space_index \/ links # << >>

\* crawl(), line 347: should_add_links
ShouldAddLinks(is_space_index, links, depth) ==
    is_space_index \/ (links # << >> /\ depth < max_depth)

\* crawl(), lines 328-383, for the first future of the completed list: it is
\* popped from futures, its URL leaves active_downloads and, on success, its
\* links are queued and inserted
Process ==
    /\ phase = "process"
    /\ completed # << >>
    /\ LET job   == Head(completed)
           links == LinksOf(job.url)
           add   == /\ job.success
                    /\ ShouldAddLinks(job.is_space_index, links, job.depth)
                    /\ links # << >>
           res   == IF add
                    THEN AddLinks(links, 1, NextDepth(job.is_space_index, job.depth),
                                  job.url, download_queue, CurStore)
                    ELSE << download_queue, CurStore >>
       IN  /\ completed' = Tail(completed)
           /\ futures' = SelectSeq(futures, LAMBDA j : j.url # job.url)
           /\ active_downloads' = active_downloads \ {job.url}
           /\ download_queue' = res[1]
           /\ SetStore(res[2])
           /\ stats' = IF job.success
                       THEN IF job.is_space_index THEN stats
                            ELSE StatInc(stats, "urls_downloaded")
                       ELSE StatInc(stats, "urls_failed")
    /\ UNCHANGED << cfgVars, apiVars, fsVars, wikiVars, resVars, artVars, downloaded_urls, phase, histVars >>

\* crawl(), lines 385-390: leave the loop when there is no future and the
\* queue is empty, otherwise sleep and iterate
LoopEnd ==
    /\ phase = "process"
    /\ completed = << >>
    /\ phase' = IF futures = << >> /\ download_queue = << >>
                THEN "finished" ELSE "submit"
    /\ UNCHANGED << storeVars, cfgVars, apiVars, fsVars, wikiVars, resVars, artVars, trackVars, download_queue, downloaded_urls,
                    active_downloads, futures, completed, histVars >>

\* the process is stopped (killed or interrupted) at any point and a fresh
\* engine is constructed on the Store as it is (BaseCrawler.__init__)
Restart ==
    /\ epoch < MaxRestarts
    /\ phase # "init"
    /\ download_queue' = << >>
    /\ downloaded_urls' = get_downloaded_urls(CurStore)
    /\ active_downloads' = {}
    /\ futures' = << >>
    /\ completed' = << >>
    /\ phase' = "init"
    /\ epoch' = epoch + 1
    /\ fetches' = [c \in CleanURLs |-> 0]
    /\ stats' = ZeroStats
    /\ UNCHANGED << storeVars, cfgVars, apiVars, fsVars, wikiVars, resVars, artVars, any_failed >>

Worker ==
    \E k \in 1..MaxWorkers :
        \/ \E o \in {"ok", "fetch_failed", "save_failed", "save_partial", "exception"},
              gone \in SUBSET AllAttachments :
                WorkerFetch(k, o, gone)
        \/ WorkerAdd(k)
        \/ WorkerMark(k)

Next ==
    \/ CrawlStart
    \/ Submit
    \/ Collect
    \/ Process
    \/ LoopEnd
    \/ Worker
    \/ Restart

Spec == Init /\ [][Next]_vars

(***************************************************************************)
(* SpecLive: the engine under the scheduling the code provides.  The       *)
(* dispatcher thread keeps iterating its loop and every worker of the pool *)
(* runs its job to the end (a fetch always returns); stopping the process  *)
(* is not forced.                                                          *)
(***************************************************************************)
InitLive ==
    /\ discovered_urls = << >>
    /\ downloaded_documents = {}
    /\ url_mappings = {}
    /\ max_depth \in {1, MaxDepthCfg}
    /\ max_workers \in {1, MaxWorkers}
    /\ site \in LiveSites
    /\ NewEngine(EmptyStore)
    /\ epoch = 0
    /\ fetches = [c \in CleanURLs |-> 0]
    /\ any_failed = FALSE
    /\ last_call = NULL
    /\ files = {}
    /\ confluence_metadata = {}
    /\ confluence_attachments = << >>
    /\ NoResources
    /\ NoArtifacts

\* SpecAttach: the engine on the site whose start page has attachments
InitAttach ==
    /\ discovered_urls = << >>
    /\ downloaded_documents = {}
    /\ url_mappings = {}
    /\ max_depth \in {1, MaxDepthCfg}
    /\ max_workers \in {1, MaxWorkers}
    /\ site \in AttachSites
    /\ NewEngine(EmptyStore)
    /\ epoch = 0
    /\ fetches = [c \in CleanURLs |-> 0]
    /\ any_failed = FALSE
    /\ last_call = NULL
    /\ files = {}
    /\ confluence_metadata = {}
    /\ confluence_attachments = << >>
    /\ NoResources
    /\ NoArtifacts

SpecAttach == InitAttach /\ [][Next]_vars

\* SpecTitles: the engine on the site whose pages are addressed by title and
\* by /content/<id>
InitTitles ==
    /\ discovered_urls = << >>
    /\ downloaded_documents = {}
    /\ url_mappings = {}
    /\ max_depth = 1
    /\ max_workers \in {1, MaxWorkers}
    /\ site \in TitleSites
    /\ NewEngine(EmptyStore)
    /\ epoch = 0
    /\ fetches = [c \in CleanURLs |-> 0]
    /\ any_failed = FALSE
    /\ last_call = NULL
    /\ files = {}
    /\ confluence_metadata = {}
    /\ confluence_attachments = << >>
    /\ NoResources
    /\ NoArtifacts

SpecTitles == InitTitles /\ [][Next]_vars

\* SpecTwins: the engine on the site whose space index lists a page twice
InitTwins ==
    /\ discovered_urls = << >>
    /\ downloaded_documents = {}
    /\ url_mappings = {}
    /\ max_depth \in {1, MaxDepthCfg}
    /\ max_workers \in {1, MaxWorkers}
    /\ site \in TwinSites
    /\ NewEngine(EmptyStore)
    /\ epoch = 0
    /\ fetches = [c \in CleanURLs |-> 0]
    /\ any_failed = FALSE
    /\ last_call = NULL
    /\ files = {}
    /\ confluence_metadata = {}
    /\ confluence_attachments = << >>
    /\ NoResources
    /\ NoArtifacts

SpecTwins == InitTwins /\ [][Next]_vars

\* SpecRace: the engine on the site where a page and the space index that
\* lists it are fetched side by side
InitRace ==
    /\ discovered_urls = << >>
    /\ downloaded_documents = {}
    /\ url_mappings = {}
    /\ max_depth \in {1, MaxDepthCfg}
    /\ max_workers \in {1, MaxWorkers}
    /\ site \in RaceSites
    /\ NewEngine(EmptyStore)
    /\ epoch = 0
    /\ fetches = [c \in CleanURLs |-> 0]
    /\ any_failed = FALSE
    /\ last_call = NULL
    /\ files = {}
    /\ confluence_metadata = {}
    /\ confluence_attachments = << >>
    /\ NoResources
    /\ NoArtifacts

SpecRace == InitRace /\ [][Next]_vars

\* SpecPolicy: the engine on the site with a link outside the valid patterns
InitPolicy ==
    /\ discovered_urls = << >>
    /\ downloaded_documents = {}
    /\ url_mappings = {}
    /\ max_depth \in {1, MaxDepthCfg}
    /\ max_workers \in {1, MaxWorkers}
    /\ site \in PolicySites
    /\ NewEngine(EmptyStore)
    /\ epoch = 0
    /\ fetches = [c \in CleanURLs |-> 0]
    /\ any_failed = FALSE
    /\ last_call = NULL
    /\ files = {}
    /\ confluence_metadata = {}
    /\ confluence_attachments = << >>
    /\ NoResources
    /\ NoArtifacts

SpecPolicy == InitPolicy /\ [][Next]_vars

(***************************************************************************)
(* SpecRuns: two runs of the engine, each from an empty Store and an empty *)
(* output directory, against the same upstream content; the clock can      *)
(* advance at any moment.                                                  *)
(***************************************************************************)
InitRuns ==
    /\ discovered_urls = << >>
    /\ downloaded_documents = {}
    /\ url_mappings = {}
    /\ max_depth = 1
    /\ max_workers \in {1, MaxWorkers}
    /\ site \in RunSites
    /\ NewEngine(EmptyStore)
    /\ epoch = 0
    /\ fetches = [c \in CleanURLs |-> 0]
    /\ any_failed = FALSE
    /\ last_call = NULL
    /\ files = {}
    /\ confluence_metadata = {}
    /\ confluence_attachments = << >>
    /\ NoResources
    /\ NoArtifacts

\* a day passes
Tick ==
    /\ clock < MaxDays
    /\ clock' = clock + 1
    /\ UNCHANGED << storeVars, cfgVars, apiVars, engineVars, histVars, trackVars,
                    fsVars, wikiVars, resVars, artifacts, first_run >>

\* the first run is complete: its artifacts are kept aside and the second
\* run starts from an empty Store and an empty output directory
NewRun ==
    /\ phase = "finished"
    /\ first_run = NULL
    /\ first_run' = Some(artifacts)
    /\ artifacts' = {}
    /\ SetStore(EmptyStore)
    /\ download_queue' = << >>
    /\ downloaded_urls' = {}
    /\ active_downloads' = {}
    /\ futures' = << >>
    /\ completed' = << >>
    /\ phase' = "init"
    /\ epoch' = 0
    /\ fetches' = [c \in CleanURLs |-> 0]
    /\ any_failed' = FALSE
    /\ stats' = ZeroStats
    /\ files' = {}
    /\ confluence_metadata' = {}
    /\ confluence_attachments' = << >>
    /\ UNCHANGED << cfgVars, apiVars, resVars, clock >>

NextRuns == Next \/ Tick \/ NewRun

SpecRuns == InitRuns /\ [][NextRuns]_vars

Dispatcher == CrawlStart \/ Submit \/ Collect \/ Process \/ LoopEnd

WorkerOf(k) ==
    \/ \E o \in {"ok", "fetch_failed", "save_failed", "save_partial", "exception"},
          gone \in SUBSET AllAttachments :
            WorkerFetch(k, o, gone)
    \/ WorkerAdd(k)
    \/ WorkerMark(k)

SpecLive ==
    /\ InitLive
    /\ [][Next]_vars
    /\ WF_vars(Dispatcher)
    /\ \A k \in 1..MaxWorkers : WF_vars(WorkerOf(k))

(***************************************************************************)
(* SpecWeb: the HTML engine (WebCrawler.download_recursive and             *)
(* download_url_parallel).  Depth counts down from max_depth to 0.  It     *)
(* uses the engine variables as WebCrawler uses its fields of the same     *)
(* names: download_queue holds << url, depth >>, downloaded_urls and       *)
(* active_downloads hold clean URLs, futures holds the jobs submitted to   *)
(* the pool.  A job is tracked while it is in active_futures.              *)
(* phase is the dispatcher's position: "init", "loop", then "finished", or *)
(* "aborted" when an exception has left download_recursive.                *)
(***************************************************************************)
\* WebCrawler.clean_url: scheme://netloc/path, query and fragment dropped
clean_url(url) == [url EXCEPT !.query = "", !.frag = ""]

\* the start URL of the HTML site, as configured (with a query string)
WebStartURL == URL(<<"wiki", "spaces", "AR", "pages", "100001">>, "src=nav", "")

\* WebCrawler.extract_links for the page at a clean URL: a set of clean URLs
WebLinks(c) ==
    CASE c = Home -> {PgA, PgP}
      [] c = PgA  -> {PgP}
      [] OTHER    -> {}

\* WebCrawler.url_to_local_path with output_format markdown: the '/wiki/'
\* prefix is cut, an empty path becomes index, the extension is appended
url_to_local_path(url) ==
    LET path == IF url.path # << >> /\ Head(url.path) = "wiki"
                THEN Tail(url.path) ELSE url.path
    IN  << "out" >> \o (IF path = << >> THEN << "index" >> ELSE path) \o << ".md" >>

\* the orders in which a set of links can be iterated
Orders(S) ==
    {q \in [1..Cardinality(S) -> S] : \A i, j \in 1..Cardinality(S) : i # j => q[i] # q[j]}

\* WebCrawler.__init__ and load_progress on the Store st
NewWebEngine(st) ==
    /\ download_queue = get_pending_urls(st)
    /\ downloaded_urls = get_downloaded_urls(st)
    /\ active_downloads = {}
    /\ futures = << >>
    /\ completed = << >>
    /\ phase = "init"
    /\ stats = ZeroStats

InitWeb ==
    /\ discovered_urls = << >>
    /\ downloaded_documents = {}
    /\ url_mappings = {}
    /\ max_depth \in {1, MaxDepthCfg}
    /\ max_workers \in {1, MaxWorkers}
    /\ site = "html"
    /\ NewWebEngine(EmptyStore)
    /\ epoch = 0
    /\ fetches = [c \in CleanURLs |-> 0]
    /\ any_failed = FALSE
    /\ last_call = NULL
    /\ files = {}
    /\ confluence_metadata = {}
    /\ confluence_attachments = << >>
    /\ NoResources
    /\ NoArtifacts

\* download_recursive, lines 1005-1021: the start URL is inserted and queued
\* at depth max_depth when the queue is empty and it is not downloaded; the
\* downloaded counter is set to the number of downloaded URLs
WebStart ==
    /\ phase = "init"
    /\ LET clean_start_url == clean_url(WebStartURL)
       IN  IF download_queue = << >> /\ clean_start_url \notin downloaded_urls
           THEN /\ SetStore(add_discovered_url(CurStore, WebStartURL,
                                clean_start_url, max_depth, NULL))
                /\ download_queue' = << << clean_start_url, max_depth >> >>
           ELSE UNCHANGED << storeVars, download_queue >>
    /\ stats' = [stats EXCEPT !.urls_downloaded = StatValue(Cardinality(downloaded_urls))]
    /\ phase' = "loop"
    /\ UNCHANGED << cfgVars, apiVars, fsVars, wikiVars, resVars, artVars, downloaded_urls, active_downloads,
                    futures, completed, histVars >>

Tracked == {k \in 1..Len(futures) : futures[k].tracked}

\* a job of the pool: download_url_parallel((url, depth)) about to start;
\* tracked says that the future is in active_futures
NewWebJob(url, depth) ==
    [url |-> url, depth |-> depth, pc |-> "start", tracked |-> TRUE]

\* download_recursive, lines 1069-1079, one iteration of the submit loop
WebSubmit ==
    /\ phase = "loop"
    /\ Cardinality(Tracked) < max_workers /\ download_queue # << >>
    /\ futures' = Append(futures, NewWebJob(Head(download_queue)[1],
                                            Head(download_queue)[2]))
    /\ download_queue' = Tail(download_queue)
    /\ UNCHANGED << storeVars, cfgVars, apiVars, fsVars, wikiVars, resVars, artVars, trackVars, downloaded_urls,
                    active_downloads, completed, phase, histVars >>

\* futures with the jobs of the set gone removed
Without(f, gone) ==
    SelectSeq([j \in 1..Len(f) |-> IF j \in gone THEN << >> ELSE f[j]],
              LAMBDA x : x # << >>)

\* download_recursive, lines 1081-1124: after the submit loop at most one
\* completed future is taken from active_futures, some completed one when
\* there is one; then the loop ends when the queue and active_futures are
\* empty, and iterates otherwise
WebReap ==
    /\ phase = "loop"
    /\ ~(Cardinality(Tracked) < max_workers /\ download_queue # << >>)
    /\ LET done == {k \in Tracked : futures[k].pc = "done"}
       IN  \E gone \in SUBSET done :
              /\ Cardinality(gone) = IF done = {} THEN 0 ELSE 1
              /\ futures' = Without(futures, gone)
              /\ phase' = IF download_queue = << >> /\ Tracked \subseteq gone
                          THEN "finished" ELSE "loop"
    /\ UNCHANGED << storeVars, cfgVars, apiVars, fsVars, wikiVars, resVars, artVars, trackVars, download_queue,
                    downloaded_urls, active_downloads, completed, histVars >>

\* download_recursive, lines 1053-1067, at the head of an iteration when a
\* future has been in active_futures for more than max_future_timeout
\* seconds: the first such future, which is the one submitted first, is
\* popped from active_futures and cancelled, which does not stop a running
\* job; then progress_tracker.increment_stat is called, which
\* ProgressTracker does not define, and the AttributeError leaves the loop
\* and download_recursive
WebTimeout ==
    /\ phase = "loop"
    /\ \E k \in Tracked :
          /\ \A j \in Tracked : k <= j
          /\ futures' = [futures EXCEPT ![k].tracked = FALSE]
    /\ phase' = "aborted"
    /\ UNCHANGED << storeVars, cfgVars, apiVars, fsVars, wikiVars, resVars, artVars, trackVars, download_queue,
                    downloaded_urls, active_downloads, completed, histVars >>

\* download_url_parallel, lines 645-659: the job ends at once when the clean
\* URL is downloaded or active, and makes it active otherwise
WebBegin(k) ==
    /\ k \in 1..Len(futures)
    /\ futures[k].pc = "start"
    /\ LET c == clean_url(futures[k].url)
       IN  IF c \in downloaded_urls \/ c \in active_downloads
           THEN /\ SetJob(k, [futures[k] EXCEPT !.pc = "done"])
                /\ UNCHANGED active_downloads
           ELSE /\ SetJob(k, [futures[k] EXCEPT !.pc = "get"])
                /\ active_downloads' = active_downloads \cup {c}
    /\ UNCHANGED << storeVars, cfgVars, apiVars, fsVars, wikiVars, resVars, artVars, trackVars, download_queue,
                    downloaded_urls, completed, phase, histVars >>

WebOutcomes == {"ok", "auth_error", "exception", "exception_after_write"}

\* the error message recorded for a failure: the fixed authentication
\* message (line 677) or str(e) (line 745)
WebError(outcome) == IF outcome = "auth_error" THEN "Authentication error" ELSE "exception"

\* download_url_parallel, lines 663-695 and 742-750: the GET and the write of
\* the page.  An authentication error page is marked failed; an exception
\* (of the GET, or of the write before or after the file exists) is marked
\* failed and counted; otherwise the file is written.
WebGet(k, outcome) ==
    /\ k \in 1..Len(futures)
    /\ futures[k].pc = "get"
    /\ outcome \in WebOutcomes
    /\ LET job == futures[k]
           c   == clean_url(job.url)
       IN  /\ fetches' = Bump(fetches, c)
           /\ files' = IF outcome \in {"ok", "exception_after_write"}
                       THEN files \cup {url_to_local_path(c)} ELSE files
           /\ IF outcome = "ok"
              THEN /\ SetJob(k, [job EXCEPT !.pc = "links"])
                   /\ UNCHANGED << storeVars, stats, any_failed >>
              ELSE /\ SetJob(k, [job EXCEPT !.pc = "done"])
                   /\ SetStore(mark_url_failed(CurStore, c, WebError(outcome)))
                   /\ stats' = IF outcome = "auth_error" THEN stats
                               ELSE StatInc(stats, "urls_failed")
                   /\ any_failed' = TRUE
    /\ UNCHANGED << cfgVars, apiVars, wikiVars, resVars, artVars, download_queue, downloaded_urls,
                    active_downloads, completed, phase, epoch >>

\* download_url_parallel, lines 702-723: for depth > 0 the links that are
\* not downloaded are inserted at depth - 1 with this page as parent, and
\* those that are neither downloaded nor active are queued
WebAddLinks(k) ==
    /\ k \in 1..Len(futures)
    /\ futures[k].pc = "links"
    /\ LET job   == futures[k]
           c     == clean_url(job.url)
           links == WebLinks(c)
       IN  /\ \E order \in Orders(links) :
               LET kept      == SelectSeq(order, LAMBDA l : l \notin downloaded_urls)
                  urls_data == [i \in 1..Len(kept) |->
                                   << kept[i], clean_url(kept[i]), job.depth - 1, Some(c) >>]
                  queued    == SelectSeq(kept, LAMBDA l :
                                   /\ clean_url(l) \notin downloaded_urls
                                   /\ clean_url(l) \notin active_downloads)
              IN  IF job.depth > 0 /\ urls_data # << >>
                  THEN /\ SetStore(add_discovered_urls_batch(CurStore, urls_data))
                       /\ download_queue' = download_queue \o
                             [i \in 1..Len(queued) |-> << clean_url(queued[i]), job.depth - 1 >>]
                  ELSE UNCHANGED << storeVars, download_queue >>
           /\ SetJob(k, [job EXCEPT !.pc = "mark"])
    /\ UNCHANGED << cfgVars, apiVars, fsVars, wikiVars, resVars, artVars, trackVars, downloaded_urls,
                    active_downloads, completed, phase, histVars >>

\* download_url_parallel, line 726: db.mark_url_completed(clean_url, path,
\* file_size, download_time, links_extracted, depth)
WebMark(k) ==
    /\ k \in 1..Len(futures)
    /\ futures[k].pc = "mark"
    /\ LET c == clean_url(futures[k].url)
       IN  SetStore(mark_url_completed(CurStore, c, url_to_local_path(c),
                                       Some(futures[k].depth)))
    /\ SetJob(k, [futures[k] EXCEPT !.pc = "add"])
    /\ UNCHANGED << cfgVars, apiVars, fsVars, wikiVars, resVars, artVars, trackVars, download_queue,
                    downloaded_urls, active_downloads, completed, phase, histVars >>

\* download_url_parallel, lines 729-738: the clean URL joins downloaded_urls
\* and the downloaded counter is incremented
WebAdd(k) ==
    /\ k \in 1..Len(futures)
    /\ futures[k].pc = "add"
    /\ downloaded_urls' = downloaded_urls \cup {clean_url(futures[k].url)}
    /\ stats' = StatInc(stats, "urls_downloaded")
    /\ SetJob(k, [futures[k] EXCEPT !.pc = "done"])
    /\ UNCHANGED << storeVars, cfgVars, apiVars, fsVars, wikiVars, resVars, artVars, download_queue,
                    active_downloads, completed, phase, histVars >>

\* the process is stopped at any point and a fresh WebCrawler is constructed
\* on the Store as it is
WebRestart ==
    /\ epoch < MaxRestarts
    /\ phase # "init"
    /\ download_queue' = get_pending_urls(CurStore)
    /\ downloaded_urls' = get_downloaded_urls(CurStore)
    /\ active_downloads' = {}
    /\ futures' = << >>
    /\ completed' = << >>
    /\ phase' = "init"
    /\ epoch' = epoch + 1
    /\ fetches' = [c \in CleanURLs |-> 0]
    /\ stats' = ZeroStats
    /\ UNCHANGED << storeVars, cfgVars, apiVars, fsVars, wikiVars, resVars, artVars, any_failed >>

WebWorker ==
    \E k \in 1..MaxWorkers :
        \/ WebBegin(k)
        \/ \E o \in WebOutcomes : WebGet(k, o)
        \/ WebAddLinks(k)
        \/ WebMark(k)
        \/ WebAdd(k)

NextWeb ==
    \/ WebStart
    \/ WebSubmit
    \/ WebReap
    \/ WebTimeout
    \/ WebWorker
    \/ WebRestart

SpecWeb == InitWeb /\ [][NextWeb]_vars

TypeOK ==
    /\ phase \in {"init", "submit", "process", "finished"}
    /\ \A i \in 1..Len(discovered_urls) : discovered_urls[i].status \in Statuses
    /\ downloaded_urls \subseteq CleanURLs
    /\ active_downloads \subseteq RawURLs

(***************************************************************************)
(* SpecStore: the Store under arbitrary sequences of calls of its          *)
(* operations, as its callers make them (the engines, and the one-shot     *)
(* JSON migration, which calls mark_url_completed for URLs that were       *)
(* never inserted).  last_call records the call, its arguments and its     *)
(* return value; n counts the calls.                                       *)
(***************************************************************************)
StoreURLs   == {PgP, PageAt("100003", "x"), PgQ}
StoreCleans == {normalize_url(u) : u \in StoreURLs}
StoreDepths == {0, 1}

\* the parent passed with a depth: none for depth 0
ParentAt(depth) == IF depth = 0 THEN NULL ELSE Some(Home)

\* the urls_data lists of the batch calls
Batches(depth) ==
    LET e(u) == << u, normalize_url(u), depth, ParentAt(depth) >>
    IN  { << e(PgP), e(PageAt("100003", "x")) >>,
          << e(PageAt("100003", "x")), e(PgQ) >>,
          << e(PgQ), e(PgQ) >> }

Calls == IF last_call = NULL THEN 0 ELSE last_call[1].n

Called(op, arg, result) ==
    last_call' = Some([op |-> op, arg |-> arg, result |-> result, n |-> Calls + 1])

EngineIdle ==
    UNCHANGED << cfgVars, engineVars, histVars, trackVars, fsVars, wikiVars, resVars, artVars >>

InitStore ==
    /\ discovered_urls = << >>
    /\ downloaded_documents = {}
    /\ url_mappings = {}
    /\ max_depth = MaxDepthCfg
    /\ max_workers = 1
    /\ site = "tree"
    /\ NewEngine(EmptyStore)
    /\ epoch = 0
    /\ fetches = [c \in CleanURLs |-> 0]
    /\ any_failed = FALSE
    /\ last_call = NULL
    /\ files = {}
    /\ confluence_metadata = {}
    /\ confluence_attachments = << >>
    /\ NoResources
    /\ NoArtifacts

\* admit: add_discovered_url(url, clean_url, depth, parent_url)
StoreAdmit(url, depth) ==
    /\ Calls < MaxCalls
    /\ SetStore(add_discovered_url(CurStore, url, normalize_url(url), depth,
                                   ParentAt(depth)))
    /\ Called("add_discovered_url", << url, depth >>,
              add_discovered_url_result(CurStore, url))
    /\ EngineIdle

\* cursor.rowcount after executemany: the number of rows inserted
BatchCount(st, urls_data) ==
    Len(add_discovered_urls_batch(st, urls_data).discovered) - Len(st.discovered)

\* admit_batch: add_discovered_urls_batch(urls_data)
StoreAdmitBatch(urls_data) ==
    /\ Calls < MaxCalls
    /\ SetStore(add_discovered_urls_batch(CurStore, urls_data))
    /\ Called("add_discovered_urls_batch", urls_data,
              BatchCount(CurStore, urls_data))
    /\ EngineIdle

StoreMarkDownloading(c) ==
    /\ Calls < MaxCalls
    /\ SetStore(mark_url_downloading(CurStore, c))
    /\ Called("mark_url_downloading", c, mark_url_downloading_result(CurStore, c))
    /\ EngineIdle

\* mark_url_completed as a call: the three statements run in one transaction
\* under db_lock; when one of them raises (ok = FALSE) the except branch rolls
\* back and returns False, otherwise commit and return True
StoreMarkCompleted(c, depth, ok) ==
    /\ Calls < MaxCalls
    /\ IF ok
       THEN SetStore(mark_url_completed(CurStore, c, generate_local_path(c, 0), depth))
       ELSE UNCHANGED storeVars
    /\ Called("mark_url_completed", << c, depth >>, ok)
    /\ EngineIdle

\* mark_url_failed returns cursor.rowcount > 0
StoreMarkFailed(c) ==
    /\ Calls < MaxCalls
    /\ \A i \in 1..Len(discovered_urls) : discovered_urls[i].retry_count < MaxRetry
    /\ SetStore(mark_url_failed(CurStore, c, "error"))
    /\ Called("mark_url_failed", c,
              \E i \in 1..Len(discovered_urls) : discovered_urls[i].clean_url = c)
    /\ EngineIdle

StoreReset ==
    /\ Calls < MaxCalls
    /\ SetStore(reset_progress(CurStore))
    /\ resources_table' = {}
    /\ Called("reset_progress", NULL, TRUE)
    /\ UNCHANGED << cfgVars, engineVars, histVars, trackVars, fsVars, wikiVars, resMemVars, artVars >>

\* the attachment rows a sequence of Store calls may write
MaxAttachRows == 2

\* the attachment lists save_page passes on
AttachmentLists == {{}, {"att1"}}

\* ConfluenceMetadata.save_to_database(url, metadata, attachments), the last
\* step of save_page: save_confluence_metadata, then
\* save_confluence_attachments when the list is not empty
StoreSaveConfluence(url, attachments) ==
    /\ Calls < MaxCalls
    /\ Len(confluence_attachments) + Cardinality(attachments) <= MaxAttachRows
    /\ confluence_metadata' = save_confluence_metadata(confluence_metadata, url)
    /\ confluence_attachments' =
          save_confluence_attachments(confluence_attachments, url,
                                      attachment_list(attachments))
    /\ Called("save_to_database", << url, attachments >>, TRUE)
    /\ UNCHANGED << storeVars, cfgVars, engineVars, histVars, trackVars, fsVars, resVars, artVars >>

\* a caller reads the pending rows
StoreGetPending(limit) ==
    /\ Calls < MaxCalls
    /\ UNCHANGED storeVars
    /\ Called("get_pending_urls", limit, get_pending_urls_limit(CurStore, limit))
    /\ EngineIdle

\* JSONMigrator._clean_url: scheme://netloc/path, query and fragment dropped
migrator_clean_url(url) == [url EXCEPT !.query = "", !.frag = ""]

\* JSONMigrator.migrate_from_json, lines 50-61, for one URL of the legacy
\* downloaded_urls list that has no entry in url_to_filename:
\* mark_url_completed(clean_url, "", None, None, 0, 0)
MigrateFromJson(url) ==
    /\ Calls < MaxCalls
    /\ SetStore(mark_url_completed(CurStore, migrator_clean_url(url), << >>, Some(0)))
    /\ Called("migrate_from_json", url, TRUE)
    /\ EngineIdle

NextStore ==
    \/ \E u \in StoreURLs, d \in StoreDepths : StoreAdmit(u, d)
    \/ \E d \in StoreDepths : \E b \in Batches(d) : StoreAdmitBatch(b)
    \/ \E c \in StoreCleans : StoreMarkDownloading(c)
    \/ \E c \in StoreCleans, d \in {NULL, Some(1)}, ok \in BOOLEAN :
          StoreMarkCompleted(c, d, ok)
    \/ \E c \in StoreCleans : StoreMarkFailed(c)
    \/ StoreReset
    \/ \E u \in StoreURLs : MigrateFromJson(u)
    \/ \E l \in Limits : StoreGetPending(l)
    \/ \E u \in StoreURLs, a \in AttachmentLists : StoreSaveConfluence(u, a)

SpecStore == InitStore /\ [][NextStore]_vars

(***************************************************************************)
(* SpecRes: WebCrawler's worker threads, each calling                      *)
(* download_single_resource (web_crawler.py, lines 906-1000) for resources *)
(* of the page it is saving.  A step is one statement block of the method: *)
(* what runs under resource_lock is one step.                              *)
(***************************************************************************)
\* rows of downloaded_resources and files an earlier run may have left
EarlierResources == {Res("a", "batch.css")}

InitRes ==
    /\ discovered_urls = << >>
    /\ downloaded_documents = {}
    /\ url_mappings = {}
    /\ max_depth = MaxDepthCfg
    /\ max_workers = MaxWorkers
    /\ site = "tree"
    /\ NewEngine(EmptyStore)
    /\ epoch = 0
    /\ fetches = [c \in CleanURLs |-> 0]
    /\ any_failed = FALSE
    /\ last_call = NULL
    /\ files = {}
    /\ confluence_metadata = {}
    /\ confluence_attachments = << >>
    /\ resources_table \in SUBSET EarlierResources
    /\ resource_files \in SUBSET {resource_path(r) : r \in EarlierResources}
    /\ downloaded_resources = resources_table
    /\ transversal_resources = resources_table
    /\ active_resources = {}
    /\ held_locks = {}
    /\ res_workers = [w \in 1..ResourceThreads |-> ResIdle]
    /\ res_gets = [r \in ResURLs |-> 0]
    /\ res_persists = [r \in ResURLs |-> 0]
    /\ NoArtifacts

ResRest ==
    UNCHANGED << storeVars, cfgVars, apiVars, engineVars, histVars, trackVars,
                 fsVars, wikiVars, artVars >>

SetRes(w, pc, result) ==
    res_workers' = [res_workers EXCEPT ![w].pc = pc, ![w].result = result]

\* download_resources, lines 883 and 897: a worker thread calls
\* download_single_resource for a resource of its page
ResCall(w, r) ==
    /\ res_workers[w].pc = "idle"
    /\ res_workers[w].calls < MaxResCalls
    /\ res_workers' = [res_workers EXCEPT ![w] =
           [pc |-> "check", url |-> r, calls |-> @.calls + 1, result |-> NULL]]
    /\ UNCHANGED << resources_table, downloaded_resources, active_resources,
                    transversal_resources, held_locks, resource_files,
                    res_gets, res_persists >>
    /\ ResRest

\* lines 909-913: the row exists and its file exists: return the path
ResCheck(w) ==
    LET r == res_workers[w].url IN
    /\ res_workers[w].pc = "check"
    /\ IF r \in resources_table /\ resource_path(r) \in resource_files
       THEN SetRes(w, "idle", Some(resource_path(r)))
       ELSE SetRes(w, "acquire", NULL)
    /\ UNCHANGED << resources_table, downloaded_resources, active_resources,
                    transversal_resources, held_locks, resource_files,
                    res_gets, res_persists >>
    /\ ResRest

\* variant of may_acquire that does not look at active_resources
may_acquire_NoActiveCheck(r) == r \notin downloaded_resources

\* acquire_resource_lock, lines 361-364: refused if the URL is reserved or
\* already downloaded
may_acquire(r) == r \notin active_resources /\ r \notin downloaded_resources

\* acquire_resource_lock, lines 360-370, under resource_lock
ResAcquire(w) ==
    LET r == res_workers[w].url IN
    /\ res_workers[w].pc = "acquire"
    /\ IF may_acquire(r)
       THEN /\ active_resources' = active_resources \cup {r}
            /\ SetRes(w, "lock", NULL)
       ELSE /\ UNCHANGED active_resources
            /\ SetRes(w, "refused", NULL)
    /\ UNCHANGED << resources_table, downloaded_resources,
                    transversal_resources, held_locks, resource_files,
                    res_gets, res_persists >>
    /\ ResRest

\* lines 916-923: the lock was refused: the path of transversal_resources
\* if its file exists, else None
ResRefused(w) ==
    LET r == res_workers[w].url IN
    /\ res_workers[w].pc = "refused"
    /\ IF r \in transversal_resources /\ resource_path(r) \in resource_files
       THEN SetRes(w, "idle", Some(resource_path(r)))
       ELSE SetRes(w, "idle", NULL)
    /\ UNCHANGED << resources_table, downloaded_resources, active_resources,
                    transversal_resources, held_locks, resource_files,
                    res_gets, res_persists >>
    /\ ResRest

\* acquire_resource_lock, line 373: resource_locks[url].acquire() blocks
\* while the lock is held
ResLock(w) ==
    LET r == res_workers[w].url IN
    /\ res_workers[w].pc = "lock"
    /\ r \notin held_locks
    /\ held_locks' = held_locks \cup {r}
    /\ SetRes(w, "exists", NULL)
    /\ UNCHANGED << resources_table, downloaded_resources, active_resources,
                    transversal_resources, resource_files, res_gets, res_persists >>
    /\ ResRest

\* line 939: if file_path.exists() the resource is registered without a GET
ResExists(w) ==
    LET r == res_workers[w].url IN
    /\ res_workers[w].pc = "exists"
    /\ IF resource_path(r) \in resource_files
       THEN SetRes(w, "persist", NULL)
       ELSE SetRes(w, "get", NULL)
    /\ UNCHANGED << resources_table, downloaded_resources, active_resources,
                    transversal_resources, held_locks, resource_files,
                    res_gets, res_persists >>
    /\ ResRest

\* lines 955-969: GET, raise_for_status, write the file; lines 994-996: an
\* exception is caught and None returned
ResGet(w, ok) ==
    LET r == res_workers[w].url IN
    /\ res_workers[w].pc = "get"
    /\ IF ok
       THEN /\ resource_files' = resource_files \cup {resource_path(r)}
            /\ res_gets' = [res_gets EXCEPT ![r] = @ + 1]
            /\ SetRes(w, "persist", NULL)
       ELSE /\ UNCHANGED << resource_files, res_gets >>
            /\ SetRes(w, "release", NULL)
    /\ UNCHANGED << resources_table, downloaded_resources, active_resources,
                    transversal_resources, held_locks, res_persists >>
    /\ ResRest

\* lines 945 and 977: add_downloaded_resource (INSERT OR REPLACE); it
\* returns False without raising if sqlite fails
ResPersist(w, dbok) ==
    LET r == res_workers[w].url IN
    /\ res_workers[w].pc = "persist"
    /\ resources_table' = IF dbok THEN resources_table \cup {r} ELSE resources_table
    /\ res_persists' = [res_persists EXCEPT ![r] = @ + 1]
    /\ SetRes(w, "publish", NULL)
    /\ UNCHANGED << downloaded_resources, active_resources,
                    transversal_resources, held_locks, resource_files, res_gets >>
    /\ ResRest

\* lines 948-953 and 980-992, under resource_lock; is_transversal_resource
\* returns True for every URL
ResPublish(w) ==
    LET r == res_workers[w].url IN
    /\ res_workers[w].pc = "publish"
    /\ downloaded_resources' = downloaded_resources \cup {r}
    /\ transversal_resources' = transversal_resources \cup {r}
    /\ SetRes(w, "release", Some(resource_path(r)))
    /\ UNCHANGED << resources_table, active_resources, held_locks,
                    resource_files, res_gets, res_persists >>
    /\ ResRest

\* release_resource_lock, lines 378-379: release the per-URL lock
ResRelease(w) ==
    LET r == res_workers[w].url IN
    /\ res_workers[w].pc = "release"
    /\ held_locks' = held_locks \ {r}
    /\ SetRes(w, "discard", res_workers[w].result)
    /\ UNCHANGED << resources_table, downloaded_resources, active_resources,
                    transversal_resources, resource_files, res_gets, res_persists >>
    /\ ResRest

\* release_resource_lock, lines 380-381: discard the reservation
ResDiscard(w) ==
    LET r == res_workers[w].url IN
    /\ res_workers[w].pc = "discard"
    /\ active_resources' = active_resources \ {r}
    /\ SetRes(w, "idle", res_workers[w].result)
    /\ UNCHANGED << resources_table, downloaded_resources,
                    transversal_resources, held_locks, resource_files,
                    res_gets, res_persists >>
    /\ ResRest

NextRes ==
    \E w \in 1..ResourceThreads :
        \/ \E r \in ResURLs : ResCall(w, r)
        \/ ResCheck(w)
        \/ ResAcquire(w)
        \/ ResRefused(w)
        \/ ResLock(w)
        \/ ResExists(w)
        \/ \E ok \in BOOLEAN : ResGet(w, ok)
        \/ \E dbok \in BOOLEAN : ResPersist(w, dbok)
        \/ ResPublish(w)
        \/ ResRelease(w)
        \/ ResDiscard(w)

SpecRes == InitRes /\ [][NextRes]_vars

(***************************************************************************)
(* SpecDriver: CrawlerOrchestrator choosing the driver                     *)
(* (src/src/crawler_orchestrator.py).  A configuration is                  *)
(* website.confluence.is_confluence and use_api ("true", "false", "auto"), *)
(* website.start_url and base_url (NULL is the empty string), and the      *)
(* state of the credentials.                                               *)
(***************************************************************************)
\* the labels of a host name
Labels(h) ==
    CASE h = "wiki.example.com"   -> << "wiki", "example", "com" >>
      [] h = "team.atlassian.net" -> << "team", "atlassian", "net" >>
      [] h = "docs.example.org"   -> << "docs", "example", "org" >>

OnHost(h, path) == [URL(path, "", "") EXCEPT !.host = h]

\* _is_confluence_url, lines 97-108: '.atlassian.net' in the URL, or one of
\* '/wiki/', '/confluence/', '/display/', '/pages/', '/rest/api/content/'
\* (a segment followed by a slash)
is_confluence_url(given) ==
    /\ given # NULL
    /\ LET url == given[1] IN
       \/ \E i \in 2..(Len(Labels(url.host)) - 1) :
              Labels(url.host)[i] = "atlassian" /\ Labels(url.host)[i + 1] = "net"
       \/ \E i \in 1..(Len(url.path) - 1) :
              url.path[i] \in {"wiki", "confluence", "display", "pages"}
       \/ \E i \in 1..(Len(url.path) - 3) :
              /\ url.path[i] = "rest" /\ url.path[i + 1] = "api"
              /\ url.path[i + 2] = "content"

\* detect_site_type, lines 72-85
detect_site_type(cfg) ==
    IF cfg.is_confluence = "true" THEN "confluence"
    ELSE IF cfg.is_confluence = "false" THEN "html"
    ELSE IF is_confluence_url(cfg.start_url) \/ is_confluence_url(cfg.base_url)
    THEN "confluence"
    ELSE "html"

\* _load_confluence_auth, lines 47-63: auth is None unless the credentials
\* load and are valid
auth_is_valid(credentials) == credentials = "valid"

\* should_use_api_crawler, lines 118-138: "True", "False", or "ValueError"
should_use_api_crawler(cfg, credentials) ==
    IF detect_site_type(cfg) # "confluence" THEN "False"
    ELSE IF cfg.use_api = "true"
    THEN IF ~auth_is_valid(credentials) THEN "ValueError" ELSE "True"
    ELSE IF cfg.use_api = "false" THEN "False"
    ELSE IF auth_is_valid(credentials) THEN "True" ELSE "False"

\* create_crawler, lines 147-180: the class of the crawler returned, or the
\* error raised
create_crawler(cfg, credentials) ==
    LET use == should_use_api_crawler(cfg, credentials)
    IN  IF use = "ValueError" THEN "ValueError"
        ELSE IF use = "True" THEN "ConfluenceAPICrawler"
        ELSE "WebCrawler"

Tristate    == {"true", "false", "auto"}
Credentials == {"missing", "invalid", "valid"}
DriverURLs  == {NULL, Some(Home), Some(URL(<< "wiki" >>, "", "")),
                Some(OnHost("team.atlassian.net", << "docs" >>)),
                Some(OnHost("docs.example.org", << "docs", "intro" >>))}
DriverBases == {NULL, Some(OnHost("docs.example.org", << "confluence", "x" >>))}
DriverConfigs ==
    [is_confluence : Tristate, use_api : Tristate,
     start_url : DriverURLs, base_url : DriverBases]

\* a process builds its orchestrator and calls create_crawler once
CreateCrawler(cfg, credentials) ==
    /\ last_call = NULL
    /\ Called("create_crawler", [config |-> cfg, credentials |-> credentials],
              create_crawler(cfg, credentials))
    /\ UNCHANGED storeVars
    /\ EngineIdle

NextDriver == \E cfg \in DriverConfigs, cr \in Credentials : CreateCrawler(cfg, cr)

SpecDriver == InitStore /\ [][NextDriver]_vars

(***************************************************************************)
(* Properties of the engine (Spec).                                        *)
(***************************************************************************)
\* the indices of the discovered_urls rows with clean URL c
RowsOf(c) == {i \in 1..Len(discovered_urls) : discovered_urls[i].clean_url = c}

\* a DownloadedDocument row exists for c
HasDocument(c) == \E r \in downloaded_documents : r.clean_url = c

\* some DiscoveredURL row of c has status completed
StoreCompleted(c) == \E i \in RowsOf(c) : discovered_urls[i].status = "completed"

\* C1: the Store holds at most one DiscoveredURL row for every clean URL
C1_OneRowPerCleanURL ==
    \A c \in CleanURLs : Cardinality(RowsOf(c)) <= 1

\* C3: once mark_completed has returned for a clean URL c, should_download
\* is false for every queued URL whose clean form is c, whatever fragment
\* the queued raw URL carries
C3_CompletedNotAdmissible ==
    \A k \in 1..Len(download_queue) :
        LET u == download_queue[k][1]
            d == download_queue[k][2]
        IN  (HasDocument(normalize_url(u)) /\ StoreCompleted(normalize_url(u)))
                => ~should_download(u, d)

\* C4: when the engine has drained and no job failed, every clean URL that
\* was fetched was fetched exactly once, and a fetched page has exactly one
\* DownloadedDocument row
C4_OneFetchPerCleanURL ==
    (phase = "finished" /\ ~any_failed) =>
        \A c \in CleanURLs :
            fetches[c] > 0 =>
                /\ fetches[c] = 1
                /\ ~is_space_url(c) =>
                       Cardinality({r \in downloaded_documents : r.clean_url = c}) = 1

\* C5: an engine started on a Store left by an earlier run never submits a
\* job for a URL that is completed in the Store
C5_ResumeNoRefetch ==
    [][(epoch >= 1 /\ Len(futures') > Len(futures)) =>
            ~StoreCompleted(normalize_url(futures'[Len(futures')].url))]_vars

\* C7: when a worker's job has ended, every Store row of its URL has status
\* completed or failed
C7_EndedJobsResolved ==
    \A k \in 1..Len(futures) :
        futures[k].pc = "done" =>
            \A i \in 1..Len(discovered_urls) :
                discovered_urls[i].url = futures[k].url =>
                    discovered_urls[i].status \in {"completed", "failed"}

\* the clean URLs that are completed in the Store
CompletedSet == {c \in CleanURLs : StoreCompleted(c)}

\* the final set of completed URLs of an uninterrupted run in which no job
\* fails, per site and max_depth
UninterruptedFinal ==
    IF site = "tree"
    THEN IF max_depth = 1 THEN {Home, PgA, PgP}
         ELSE {Home, PgA, PgP, PgQ, PgR}
    ELSE IF max_depth = 1 THEN {PgA, PgP, PgQ}
         ELSE {PgA, PgP, PgQ, PgR}

\* every uninterrupted run without failures ends with UninterruptedFinal
UninterruptedRunFinal ==
    (phase = "finished" /\ epoch = 0 /\ ~any_failed)
        => CompletedSet = UninterruptedFinal

\* C2: a run that was stopped and started again on the resulting Store ends,
\* when no job failed, with the same set of completed URLs as an
\* uninterrupted run
C2_ResumedRunFinal ==
    (phase = "finished" /\ ~any_failed) => CompletedSet = UninterruptedFinal

\* C6: at engine startup, if the Store holds a pending URL then exactly the
\* pending URLs are loaded into the Frontier and the Store is left as it is;
\* otherwise the Frontier holds the start URL at depth 0 and nothing else, and
\* the Store holds the start URL as pending at depth 0
C6_StartURLAdmission ==
    [][(phase = "init" /\ phase' = "submit") =>
         LET pending == {i \in 1..Len(discovered_urls) :
                            discovered_urls[i].status = "pending"}
         IN  IF pending # {}
             THEN /\ Len(download_queue') = Cardinality(pending)
                  /\ {download_queue'[k] : k \in 1..Len(download_queue')} =
                        {<< discovered_urls[i].url, discovered_urls[i].depth >> :
                            i \in pending}
                  /\ discovered_urls' = discovered_urls
             ELSE /\ download_queue' = << << start_url, 0 >> >>
                  /\ \E i \in 1..Len(discovered_urls') :
                        /\ discovered_urls'[i].url = start_url
                        /\ discovered_urls'[i].status = "pending"
                        /\ discovered_urls'[i].depth = 0]_vars

\* C10: every DiscoveredURL row and every job given to a worker has a depth
\* between 0 and max_depth, no DownloadedDocument has a depth above max_depth,
\* and a row inserted from the links of a space index has depth 0
C10_DepthBound ==
    /\ \A i \in 1..Len(discovered_urls) :
          /\ 0 <= discovered_urls[i].depth
          /\ discovered_urls[i].depth <= max_depth
          /\ (/\ discovered_urls[i].parent_url # NULL
              /\ is_space_url(discovered_urls[i].parent_url[1]))
                => discovered_urls[i].depth = 0
    /\ \A k \in 1..Len(futures) :
          0 <= futures[k].depth /\ futures[k].depth <= max_depth
    /\ \A r \in downloaded_documents :
          r.depth = NULL \/ r.depth[1] <= max_depth

\* a space index found at depth max_depth > 0 has fanned out a page at
\* depth 0, that page's links were inserted at depth 1, and the run has ended
C10_FanOutBelowRoot ==
    /\ \E i, j, k \in 1..Len(discovered_urls) :
          /\ is_space_url(discovered_urls[i].url)
          /\ discovered_urls[i].depth > 0
          /\ discovered_urls[i].depth = max_depth
          /\ discovered_urls[j].parent_url = Some(discovered_urls[i].url)
          /\ discovered_urls[j].depth = 0
          /\ discovered_urls[k].parent_url = Some(discovered_urls[j].url)
          /\ discovered_urls[k].depth = 1
    /\ phase = "finished"

\* the dispatcher processes the finished job of a space index in this step
ProcessesIndex ==
    /\ phase = "process" /\ phase' = "process"
    /\ completed # << >> /\ completed' = Tail(completed)
    /\ Head(completed).success /\ Head(completed).is_space_index

\* the effects of processing a space index that do not concern its links:
\* no DownloadedDocument row and no artifact for the index URL, the
\* downloaded counter as before
IndexNotPersisted ==
    LET job == Head(completed)
    IN  /\ downloaded_documents' = downloaded_documents
        /\ \A r \in downloaded_documents' : r.clean_url # normalize_url(job.url)
        /\ files' = files
        /\ generate_local_path(job.url, job.depth) \notin files'
        /\ stats'.urls_downloaded = stats.urls_downloaded

\* C11 (as stated): processing a space index persists nothing for the index
\* and inserts every returned link into the Frontier and into the Store at
\* depth 0
C11_IndexInsertsEveryLink ==
    [][ProcessesIndex =>
         LET job   == Head(completed)
             links == LinksOf(job.url)
         IN  /\ IndexNotPersisted
             /\ \A n \in 1..Len(links) :
                   /\ \E k \in (Len(download_queue) + 1)..Len(download_queue') :
                         download_queue'[k] = << links[n], 0 >>
                   /\ \E i \in 1..Len(discovered_urls') :
                         /\ discovered_urls'[i].url = links[n]
                         /\ discovered_urls'[i].depth = 0]_vars

\* C11 (amended): processing a space index persists nothing for the index;
\* every returned link whose normalized URL is not in downloaded_urls is
\* appended to the Frontier at depth 0, whatever the depth of the index, and
\* is inserted into the Store at depth 0 with the index as parent unless a row
\* with that raw URL exists, which is left as it is; the other links are
\* dropped
C11_IndexInsertsNewLinks ==
    [][ProcessesIndex =>
         LET job   == Head(completed)
             links == LinksOf(job.url)
             fresh == SelectSeq(links, LAMBDA l : normalize_url(l) \notin downloaded_urls)
         IN  /\ IndexNotPersisted
             /\ download_queue' =
                   download_queue \o [k \in 1..Len(fresh) |-> << fresh[k], 0 >>]
             /\ Len(discovered_urls') >= Len(discovered_urls)
             /\ SubSeq(discovered_urls', 1, Len(discovered_urls)) = discovered_urls
             /\ \A i \in (Len(discovered_urls) + 1)..Len(discovered_urls') :
                   /\ \E k \in 1..Len(fresh) : discovered_urls'[i].url = fresh[k]
                   /\ discovered_urls'[i].depth = 0
                   /\ discovered_urls'[i].status = "pending"
                   /\ discovered_urls'[i].parent_url = Some(job.url)
             /\ \A k \in 1..Len(fresh) : HasRow(discovered_urls', fresh[k])]_vars

\* a space index dispatched below depth 0 has been processed: one of its
\* links was dropped because it was downloaded already, another was inserted
\* at depth 0, and pages were counted as downloaded but the index was not
C11_IndexProcessed ==
    \E i, j \in 1..Len(discovered_urls) :
        /\ is_space_url(discovered_urls[i].url)
        /\ discovered_urls[i].depth > 0
        /\ discovered_urls[j].parent_url = Some(discovered_urls[i].url)
        /\ discovered_urls[j].depth = 0
        /\ \E n \in 1..Len(LinksOf(discovered_urls[i].url)) :
              /\ LinksOf(discovered_urls[i].url)[n] \in downloaded_urls
              /\ << LinksOf(discovered_urls[i].url)[n], 0 >> \notin
                    {download_queue[k] : k \in 1..Len(download_queue)}
        /\ stats.urls_downloaded > 0
        /\ ~HasDocument(normalize_url(discovered_urls[i].url))
        /\ epoch = 0

\* C12: the engine loop eventually reaches the state where the Frontier and
\* the in-flight set are empty, and exits
C12_Terminates == <>(phase = "finished")

\* on the sites whose page lists contain no space index, the loop exits
TerminatesWithoutListedIndex == (site \in Sites) => <>(phase = "finished")

\* the dispatcher processes a finished job that failed in this step
ProcessesFailure ==
    /\ phase = "process" /\ phase' = "process"
    /\ completed # << >> /\ completed' = Tail(completed)
    /\ ~Head(completed).success

\* C15: for every job that ends in failure the failed counter is incremented
\* once and last_error is set to the job's error message
C15_FailureAccounted ==
    [][ProcessesFailure =>
         /\ stats'.urls_failed = StatValue(stats.urls_failed + 1)
         /\ stats'.last_error # NULL]_vars

\* the submit loop hands one more job to the pool in this step
Dispatches ==
    /\ phase = "submit" /\ phase' = "submit"
    /\ Len(futures') = Len(futures) + 1

\* C16: a URL admitted at a smaller depth is dispatched before one admitted
\* at a larger depth; as a consequence, no job that is still in the pool when
\* another is dispatched has a larger depth than the one dispatched
C16_BreadthFirstDispatch ==
    [][Dispatches =>
         \A k \in 1..Len(futures) :
             futures[k].depth <= futures'[Len(futures')].depth]_vars

\* C17: a URL whose job failed is not fetched again within the same run, even
\* when other copies of it are in the frontier: once the failed job has been
\* processed, no copy of its URL left in the queue is one that the submit
\* loop will still dispatch
C17_FailedNotRetried ==
    [][ProcessesFailure =>
         \A k \in 1..Len(download_queue') :
             download_queue'[k][1] = Head(completed).url =>
                 \/ download_queue'[k][2] > max_depth
                 \/ download_queue'[k][1] \in downloaded_urls'
                 \/ download_queue'[k][1] \in active_downloads']_vars

(***************************************************************************)
(* Properties of the HTML engine (SpecWeb).                                *)
(***************************************************************************)
\* C13: a job that has been in flight longer than the budget is removed from
\* the in-flight set, and once it has ended its URL has Store status failed
C13_TimedOutMarkedFailed ==
    \A k \in 1..Len(futures) :
        (~futures[k].tracked /\ futures[k].pc = "done") =>
            /\ RowsOf(clean_url(futures[k].url)) # {}
            /\ \A i \in RowsOf(clean_url(futures[k].url)) :
                  discovered_urls[i].status = "failed"

\* C14: the engine loop is never left because of a job
C14_LoopNeverAborts == phase # "aborted"

(***************************************************************************)
(* Properties of the Store (SpecStore).                                    *)
(***************************************************************************)
\* C8: a DownloadedDocument row exists for a clean URL if and only if a
\* DiscoveredURL row with that clean URL exists and has status completed
C8_DocumentIffCompleted ==
    \A c \in CleanURLs : HasDocument(c) <=> StoreCompleted(c)

\* C9: a DiscoveredURL that has status completed keeps it under every Store
\* call other than reset_progress
C9_CompletedIsFinal ==
    [][(last_call' # NULL /\ last_call'[1].op # "reset_progress") =>
         \A i \in 1..Len(discovered_urls) :
            discovered_urls[i].status = "completed" =>
                /\ i <= Len(discovered_urls')
                /\ discovered_urls'[i].status = "completed"]_vars

\* the Store call op is made in this step
StoreCall(op) ==
    /\ last_call' # NULL /\ last_call' # last_call
    /\ last_call'[1].op = op

\* C18: admit returns true exactly when no row with that clean URL existed
\* and a pending row was created; when a row with that clean URL exists it
\* returns false and leaves every Store table unchanged
C18_AdmitIdempotent ==
    [][StoreCall("add_discovered_url") =>
         LET c == normalize_url(last_call'[1].arg[1])
         IN  /\ last_call'[1].result <=> (RowsOf(c) = {})
             /\ RowsOf(c) # {} => UNCHANGED storeVars
             /\ RowsOf(c) = {} =>
                   /\ Len(discovered_urls') = Len(discovered_urls) + 1
                   /\ discovered_urls'[Len(discovered_urls')].status = "pending"]_vars

\* the statuses of the DiscoveredURL rows of a clean URL
URLStatuses(c) == {discovered_urls[i].status : i \in RowsOf(c)}

\* what the claim says of one mark_url_downloading(c) call
MarkDownloadingAsClaimed(c, result) ==
    /\ result <=> ("pending" \in URLStatuses(c))
    /\ result =>
          \A i \in RowsOf(c) :
              /\ i <= Len(discovered_urls')
              /\ discovered_urls'[i].status = "downloading"
    /\ (URLStatuses(c) \cap {"downloading", "completed", "failed"} # {}
          \/ URLStatuses(c) = {}) =>
          (~result /\ UNCHANGED storeVars)

\* C19: mark_downloading(clean) returns true and sets the status to
\* downloading exactly when the URL's status is pending; for a URL that is
\* downloading, completed, failed or absent it returns false and leaves the
\* Store unchanged
C19_MarkDownloadingConditional ==
    [][StoreCall("mark_url_downloading") =>
         MarkDownloadingAsClaimed(last_call'[1].arg, last_call'[1].result)]_vars

\* the same on the Stores in which the clean URL has at most one row
MarkDownloadingConditionalOneRow ==
    [][(StoreCall("mark_url_downloading")
          /\ Cardinality(RowsOf(last_call'[1].arg)) <= 1) =>
         MarkDownloadingAsClaimed(last_call'[1].arg, last_call'[1].result)]_vars

\* the Store st holds a DownloadedDocument row and a URLMapping row for c
Upserted(st, c) ==
    /\ \E r \in st.documents : r.clean_url = c
    /\ \E r \in st.mappings : r.clean_url = c

\* some DiscoveredURL row of c has status completed in the Store st
CompletedIn(st, c) ==
    \E i \in 1..Len(st.discovered) :
        st.discovered[i].clean_url = c /\ st.discovered[i].status = "completed"

\* C20: mark_completed is atomic: either all three effects are applied (the
\* DiscoveredURL status becomes completed, the DownloadedDocument row and the
\* URLMapping row are upserted) or none of them is, and calling it again with
\* the same arguments leaves the state it left
C20_MarkCompletedAtomic ==
    [][StoreCall("mark_url_completed") =>
         LET c     == last_call'[1].arg[1]
             depth == last_call'[1].arg[2]
             after == StoreOf(discovered_urls', downloaded_documents', url_mappings')
         IN  \/ /\ last_call'[1].result
                /\ CompletedIn(after, c) /\ Upserted(after, c)
                /\ mark_url_completed(after, c, generate_local_path(c, 0), depth) = after
             \/ /\ ~last_call'[1].result
                /\ UNCHANGED storeVars]_vars

\* the same for the clean URLs that have a DiscoveredURL row when the call
\* is made, on the columns of the three tables that the Store model carries
MarkCompletedAtomicOnRows ==
    [][(StoreCall("mark_url_completed") /\ RowsOf(last_call'[1].arg[1]) # {}) =>
         LET c     == last_call'[1].arg[1]
             depth == last_call'[1].arg[2]
             after == StoreOf(discovered_urls', downloaded_documents', url_mappings')
         IN  \/ /\ last_call'[1].result
                /\ \A i \in RowsOf(c) : after.discovered[i].status = "completed"
                /\ Upserted(after, c)
                /\ mark_url_completed(after, c, generate_local_path(c, 0), depth) = after
             \/ /\ ~last_call'[1].result
                /\ UNCHANGED storeVars]_vars

\* the pending rows as (clean URL, depth), by depth and then by discovery
\* order
PendingRows ==
    LET d   == discovered_urls
        idx == {i \in 1..Len(d) : d[i].status = "pending"}
        rank(i) == Cardinality({j \in idx : PendingBefore(d, j, i)}) + 1
    IN  [k \in 1..Cardinality(idx) |->
            LET i == CHOOSE i \in idx : rank(i) = k
            IN  << d[i].clean_url, d[i].depth >>]

\* the first n entries of a sequence
FirstN(q, n) == IF n >= Len(q) THEN q ELSE SubSeq(q, 1, n)

\* C21: pending_urls returns exactly the rows whose status is pending, each
\* as (clean URL, depth), by depth ascending and then by discovery order,
\* truncated to the first limit entries when a limit is given
C21_PendingUrlsResult ==
    [][StoreCall("get_pending_urls") =>
         LET limit == last_call'[1].arg
         IN  last_call'[1].result =
                 IF limit = NULL THEN PendingRows
                 ELSE FirstN(PendingRows, limit[1])]_vars

\* C22: reset_progress empties every table that records crawl progress: the
\* DiscoveredURL, DownloadedDocument and URLMapping tables and the wiki
\* page-metadata and attachment tables
C22_ResetEmptiesProgress ==
    [][StoreCall("reset_progress") =>
         /\ discovered_urls' = << >>
         /\ downloaded_documents' = {}
         /\ url_mappings' = {}
         /\ confluence_metadata' = {}
         /\ confluence_attachments' = << >>]_vars

\* the lifecycle tables alone are emptied by every reset_progress
ResetEmptiesLifecycleTables ==
    [][StoreCall("reset_progress") =>
         /\ discovered_urls' = << >>
         /\ downloaded_documents' = {}
         /\ url_mappings' = {}]_vars

\* the configurations and the URLs the admission decision is probed with
PolicyConfigs ==
    { [base_domain |-> b, exclude_patterns |-> e, valid_url_patterns |-> v] :
        b \in {"", "example.com"}, e \in {{}, {"admin"}}, v \in {{}, {"pages"}} }

ProbeURLs ==
    RawURLs \cup
    { [host |-> "other.com", path |-> <<"wiki", "spaces", "AR", "pages", "100002">>,
       query |-> "", frag |-> ""],
      [host |-> "notexample.com", path |-> <<"wiki", "spaces", "AR", "overview">>,
       query |-> "", frag |-> ""],
      URL(<<"wiki", "admin", "pages", "100002">>, "", "") }

\* the five conditions of the admission decision
Admissible(cfg, url, depth) ==
    /\ depth <= max_depth
    /\ normalize_url(url) \notin downloaded_urls
    /\ normalize_url(url) \notin {normalize_url(a) : a \in active_downloads}
    /\ cfg.base_domain = "" \/ InText(cfg.base_domain, url.host)
    /\ \A pattern \in cfg.exclude_patterns : ~Matches(pattern, url)
    /\ \/ cfg.valid_url_patterns = {}
       \/ \E pattern \in cfg.valid_url_patterns : Matches(pattern, url)

\* C23: should_download(url, depth) is true if and only if depth <=
\* max_depth, clean_url(url) is neither completed nor being downloaded, the
\* host matches base_domain, no exclude pattern matches and valid_url_patterns
\* is empty or one of them matches
C23_ShouldDownloadDecision ==
    \A cfg \in PolicyConfigs, url \in ProbeURLs, depth \in 0..(MaxDepthCfg + 1) :
        should_download_cfg(cfg, url, depth) <=> Admissible(cfg, url, depth)

\* the same decision for the URLs that carry no fragment
ShouldDownloadDecisionOnCleanURLs ==
    \A cfg \in PolicyConfigs, url \in ProbeURLs, depth \in 0..(MaxDepthCfg + 1) :
        (url.frag = "" /\ \A a \in active_downloads : a.frag = "") =>
            (should_download_cfg(cfg, url, depth) <=> Admissible(cfg, url, depth))

\* C24: if a DownloadedDocument row exists for a URL, the artifact file at
\* its local_path has been written: the worker calls mark_url_completed only
\* after save_page returned True
C24_WriteBeforeCommit ==
    \A r \in downloaded_documents : r.local_path \in files

\* a page has been recorded while the job of another page, whose save
\* failed or whose fetch failed, ended without a DownloadedDocument row
C24_CommittedAndRefused ==
    /\ downloaded_documents # {}
    /\ \E k \in 1..Len(futures) :
          /\ futures[k].pc = "done" /\ ~futures[k].success
          /\ ~HasDocument(normalize_url(futures[k].url))

\* pending_urls returns a row of the clean URL c: it has a DiscoveredURL row
\* that is pending (or downloading)
Recoverable(c) ==
    \E i \in RowsOf(c) : discovered_urls[i].status \in {"pending", "downloading"}

\* C25 (HTML engine): every URL that waits in the frontier and has not been
\* started in this run, and every URL whose job is in flight and has neither
\* failed nor been recorded, has a DiscoveredURL row that is pending (or
\* downloading)
C25_FrontierRecoverable ==
    /\ \A i \in 1..Len(download_queue) :
          LET c == clean_url(download_queue[i][1])
          IN  (c \notin downloaded_urls /\ c \notin active_downloads) => Recoverable(c)
    /\ \A k \in 1..Len(futures) :
          LET c == clean_url(futures[k].url)
          IN  \/ futures[k].pc \in {"get", "links", "mark"}
              \/ /\ futures[k].pc = "start"
                 /\ c \notin downloaded_urls /\ c \notin active_downloads
              => Recoverable(c)

\* the same for the BaseCrawler engine, whose dispatcher queues and inserts
\* the links of a page in one step of the model
FrontierRecoverableBase ==
    /\ \A i \in 1..Len(download_queue) :
          LET c == normalize_url(download_queue[i][1])
          IN  c \notin downloaded_urls => Recoverable(c)
    /\ \A k \in 1..Len(futures) :
          LET c == normalize_url(futures[k].url)
          IN  (futures[k].pc \in {"fetch", "add", "mark"} /\ c \notin downloaded_urls)
                  => Recoverable(c)

(***************************************************************************)
(* Properties of resource downloads (SpecRes).                              *)
(***************************************************************************)
\* the threads that hold the reservation of r: between a granted
\* acquire_resource_lock and the end of release_resource_lock
Holders(r) ==
    {w \in 1..ResourceThreads :
        /\ res_workers[w].url = r
        /\ res_workers[w].pc \in {"lock", "exists", "get", "persist", "publish",
                                  "release", "discard"}}

\* C26: per-resource dedup under concurrency.  For every resource URL r, in
\* every interleaving of the worker threads: at most one thread holds the
\* reservation of r, and r is in active_resources exactly while a thread
\* holds it (so the reservation is released when the download ends, also
\* after an error); the per-URL lock is held only by the holder; r is
\* fetched at most once and registered in the Store at most once; a thread
\* that was refused, or found r persisted, fetches nothing and returns the
\* path of an existing file or None.
C26_ResourceDedup ==
    /\ \A r \in ResURLs :
          /\ Cardinality(Holders(r)) <= 1
          /\ r \in active_resources <=> Holders(r) # {}
          /\ r \in held_locks => Holders(r) # {}
          /\ res_gets[r] <= 1
          /\ res_persists[r] <= 1
          /\ r \in downloaded_resources /\ r \notin active_resources
                => \A w \in 1..ResourceThreads :
                      res_workers[w].url = r
                         => res_workers[w].pc \in {"idle", "check", "acquire", "refused"}
    /\ \A w \in 1..ResourceThreads :
          /\ res_workers[w].pc \in {"get", "persist", "publish"}
                => res_workers[w].url \in active_resources
          /\ res_workers[w].pc = "idle" /\ res_workers[w].result # NULL
                => /\ res_workers[w].result = Some(resource_path(res_workers[w].url))
                   /\ resource_path(res_workers[w].url) \in resource_files

\* two threads asked for the same resource: one fetched and registered it and
\* has released the reservation, the other was refused and returned its path
C26_FetchedOnceOtherRefused ==
    \E r \in ResURLs, v, w \in 1..ResourceThreads :
        /\ v # w
        /\ res_gets[r] = 1
        /\ r \in resources_table
        /\ r \notin active_resources
        /\ res_workers[v].url = r /\ res_workers[v].pc = "idle"
        /\ res_workers[w].url = r /\ res_workers[w].pc = "idle"
        /\ res_workers[w].result = Some(resource_path(r))
        /\ res_workers[w].calls = 1 /\ res_workers[v].calls = 1

\* a fetch failed and the reservation was released: the resource is neither
\* reserved nor downloaded, and its lock is free
C26_ReleasedAfterError ==
    \E r \in ResURLs, w \in 1..ResourceThreads :
        /\ res_workers[w].url = r /\ res_workers[w].pc = "idle"
        /\ res_workers[w].calls = 1 /\ res_workers[w].result = NULL
        /\ res_gets[r] = 0 /\ res_persists[r] = 0
        /\ r \notin downloaded_resources
        /\ r \notin active_resources /\ r \notin held_locks
        /\ \A v \in 1..ResourceThreads : v # w => res_workers[v].pc = "idle" /\ res_workers[v].calls = 0

(***************************************************************************)
(* Properties of the attachment downloads (SpecAttach).                    *)
(***************************************************************************)
\* job k fetched and saved its page in this step while the downloads of some
\* of the page's attachments returned 404
FetchedWithGone(k) ==
    /\ k \in 1..Len(futures) /\ k \in 1..Len(futures')
    /\ futures[k].pc = "fetch" /\ futures'[k].pc = "add"
    /\ futures'[k].gone # {}

\* the dispatcher processes in this step a successful job some of whose
\* attachments returned 404
ProcessesWithGone ==
    /\ phase = "process" /\ phase' = "process"
    /\ completed # << >> /\ completed' = Tail(completed)
    /\ Head(completed).success /\ Head(completed).gone # {}

\* C27: attachment failure tolerance.  When the downloads of some of a
\* page's attachments return 404, the fetch of the page still succeeds and
\* the worker goes on to mark it completed; the outcome lists exactly the
\* attachments whose download succeeded, their files are written and their
\* rows are added to the Store in that step, no file and no row is written
\* for a failed one; the finished job is recorded as completed in the Store;
\* and processing it changes neither the failed counter nor last_error.
C27_AttachmentFailureTolerated ==
    /\ [][\A k \in 1..Len(futures) :
            FetchedWithGone(k) =>
               LET job == futures'[k]
                   c   == normalize_url(job.url)
                   got == Attachments(c) \ job.gone
               IN  /\ job.attachments = got
                   /\ Len(confluence_attachments') =
                         Len(confluence_attachments) + Cardinality(got)
                   /\ SubSeq(confluence_attachments', 1, Len(confluence_attachments))
                         = confluence_attachments
                   /\ {confluence_attachments'[i] :
                          i \in Len(confluence_attachments) + 1
                                  .. Len(confluence_attachments')}
                         = {<< job.url, a >> : a \in got}
                   /\ \A a \in got : attachment_path(job.url, a) \in files'
                   /\ \A a \in job.gone :
                         attachment_path(job.url, a) \in files'
                            <=> attachment_path(job.url, a) \in files
                   /\ stats' = stats]_vars
    /\ [](\A k \in 1..Len(futures) :
            futures[k].pc = "done" /\ futures[k].success /\ futures[k].gone # {}
               => /\ StoreCompleted(normalize_url(futures[k].url))
                  /\ HasDocument(normalize_url(futures[k].url)))
    /\ [][ProcessesWithGone =>
            /\ stats'.urls_failed = stats.urls_failed
            /\ stats'.last_error = stats.last_error]_vars

\* the job of the start page was processed and counted as downloaded: the
\* page is completed, one of its two attachments answered 404 (it has no
\* file), the other one is on disk and in the Store, and nothing was counted
\* as failed
C27_OneAttachmentGone ==
    /\ stats.urls_downloaded = 1
    /\ StoreCompleted(Home)
    /\ confluence_attachments = << << Home, "att1" >> >>
    /\ attachment_path(Home, "att1") \in files
    /\ attachment_path(Home, "att2") \notin files
    /\ stats.urls_failed = 0 /\ stats.last_error = NULL

(***************************************************************************)
(* Properties of the driver selection (SpecDriver).                        *)
(***************************************************************************)
\* C28: whenever the configuration requires wiki-API mode (use_api is true)
\* and the credentials are missing or invalid, create_crawler fails with an
\* error, for every value of is_confluence and every start URL; in all other
\* cases it returns a driver
C28_MissingCredentialsFatal ==
    last_call # NULL /\ last_call[1].op = "create_crawler"
       => LET cfg == last_call[1].arg.config
              cr  == last_call[1].arg.credentials
          IN  IF cfg.use_api = "true" /\ cr # "valid"
              THEN last_call[1].result = "ValueError"
              ELSE last_call[1].result \in {"ConfluenceAPICrawler", "WebCrawler"}

\* the same, for the configurations whose site type is detected as the wiki
DriverFatalOnWikiSites ==
    last_call # NULL /\ last_call[1].op = "create_crawler"
       => LET cfg == last_call[1].arg.config
              cr  == last_call[1].arg.credentials
          IN  IF detect_site_type(cfg) = "confluence" /\ cfg.use_api = "true"
                 /\ cr # "valid"
              THEN last_call[1].result = "ValueError"
              ELSE last_call[1].result \in {"ConfluenceAPICrawler", "WebCrawler"}

PathStableWeb ==
    /\ \A r \in downloaded_documents : r.local_path = url_to_local_path(r.clean_url)
    /\ \A m \in url_mappings : m.local_path = url_to_local_path(m.clean_url)

(***************************************************************************)
(* Properties of repeated runs (SpecRuns).                                 *)
(***************************************************************************)
\* the pairs of a page directory's artifacts of the first run and of the
\* present run, for the pages both runs wrote completely
SameArtifact(kind) ==
    first_run # NULL =>
        \A p \in first_run[1], q \in artifacts :
            /\ p.path = q.path
            /\ p.html # NULL /\ p.md # NULL /\ p.yml # NULL
            /\ q.html # NULL /\ q.md # NULL /\ q.yml # NULL
            => p[kind] = q[kind]

\* C30: idempotent artifacts.  Two complete runs from an empty Store against
\* unchanged upstream content write identical index.html, index.md and
\* index.yml for every page, whatever the wall-clock time of each run and
\* whatever the worker interleaving
C30_IdempotentArtifacts ==
    SameArtifact("html") /\ SameArtifact("md") /\ SameArtifact("yml")

\* index.html and index.md of the two runs are identical
IdempotentHtmlAndMarkdown == SameArtifact("html") /\ SameArtifact("md")

(***************************************************************************)
(* Properties of the dedup keys.                                           *)
(***************************************************************************)
\* C31: every dedup key is the normalized form of its URL, which keeps
\* scheme, authority, path and query and drops only the fragment: the keys
\* in the downloaded set and in the active set are normalized URLs, the
\* clean_url column of every Store row is the normalized form of its url,
\* and normalization is idempotent
C31_DedupKeysNormalized ==
    /\ \A u \in RawURLs : normalize_url(normalize_url(u)) = normalize_url(u)
    /\ \A k \in downloaded_urls \cup active_downloads : k = normalize_url(k)
    /\ \A i \in 1..Len(discovered_urls) :
          discovered_urls[i].clean_url = normalize_url(discovered_urls[i].url)

\* the same without the active set
DedupKeysNormalizedButActive ==
    /\ \A u \in RawURLs : normalize_url(normalize_url(u)) = normalize_url(u)
    /\ \A k \in downloaded_urls : k = normalize_url(k)
    /\ \A i \in 1..Len(discovered_urls) :
          discovered_urls[i].clean_url = normalize_url(discovered_urls[i].url)

\* under the HTML engine the key of the start URL keeps its query string
WebKeysKeepQuery ==
    \A k \in downloaded_urls \cup active_downloads :
        k.path = WebStartURL.path => k = normalize_url(WebStartURL)

(***************************************************************************)
(* Properties of the pool.                                                 *)
(***************************************************************************)
\* the submit loop pops the head of the queue in this step
Pops ==
    /\ phase = "submit" /\ phase' = "submit"
    /\ download_queue # << >> /\ download_queue' = Tail(download_queue)

\* C32: worker bound.  In every reachable state the in-flight set holds at
\* most max_workers jobs, and the dispatcher pops a queue entry only while
\* the in-flight set holds fewer than max_workers jobs
C32_WorkerBound ==
    /\ [](Len(futures) <= max_workers)
    /\ [][Pops => Len(futures) < max_workers]_vars

\* the pool is full and the dispatcher leaves an entry in the queue
C32_PoolFullQueueWaiting ==
    /\ max_workers = MaxWorkers
    /\ Len(futures) = max_workers
    /\ download_queue # << >>
    /\ phase = "process"

\* the same bound for the HTML engine's active_futures
WorkerBoundWeb == Cardinality(Tracked) <= max_workers

\* C33: persistent reservation.  Whenever a fetch of a URL is in progress,
\* the worker has called mark_downloading and the Store status of the URL is
\* downloading
C33_FetchingIsDownloading ==
    \A k \in 1..Len(futures) :
        futures[k].pc = "fetch"
           => \E i \in RowsOf(normalize_url(futures[k].url)) :
                 discovered_urls[i].status = "downloading"

\* no row of the Store ever has the status downloading
NeverDownloading ==
    \A i \in 1..Len(discovered_urls) : discovered_urls[i].status # "downloading"

(***************************************************************************)
(* Properties of admission (SpecPolicy).                                   *)
(***************************************************************************)
\* C34: admission gates the Store.  Every DiscoveredURL row satisfied the
\* URL policy (base domain, exclude patterns, valid_url_patterns, depth not
\* above max_depth) when the engine inserted it, so that when the engine has
\* terminated no row is pending whose URL the policy rejects
C34_AdmissionGatesStore ==
    /\ \A i \in 1..Len(discovered_urls) :
          url_policy(CrawlConfig, discovered_urls[i].url, discovered_urls[i].depth)
    /\ phase = "finished"
          => \A i \in 1..Len(discovered_urls) :
                discovered_urls[i].status = "pending"
                   => url_policy(CrawlConfig, discovered_urls[i].url,
                                 discovered_urls[i].depth)

\* the engine has terminated without a failure and a row is still pending
PendingAfterCleanRun ==
    /\ phase = "finished" /\ ~any_failed /\ epoch = 0
    /\ \E i \in 1..Len(discovered_urls) : discovered_urls[i].status = "pending"

\* every row satisfies the URL policy (holds on the sites all of whose links
\* lie in the wiki)
RowsSatisfyPolicy ==
    \A i \in 1..Len(discovered_urls) :
        url_policy(CrawlConfig, discovered_urls[i].url, discovered_urls[i].depth)

(***************************************************************************)
(* Properties of the attachment table (SpecStore).                         *)
(***************************************************************************)
\* the rows of the attachment table as a set of (page, attachment id) pairs
AttachmentKeys(tbl) == {tbl[i] : i \in 1..Len(tbl)}

\* C35: saving the attachments of a page is idempotent.  The attachment
\* table holds at most one row per (page, attachment id), and a save of
\* attachments whose rows are all in the table already leaves the table as
\* it was
C35_AttachmentUpsertIdempotent ==
    /\ [](\A i, j \in 1..Len(confluence_attachments) :
            confluence_attachments[i] = confluence_attachments[j] => i = j)
    /\ [][StoreCall("save_to_database")
            /\ (\A a \in last_call'[1].arg[2] :
                   << last_call'[1].arg[1], a >> \in AttachmentKeys(confluence_attachments))
            => confluence_attachments' = confluence_attachments]_vars

\* the same attachment of the same page was saved twice and has two rows
AttachmentSavedTwice ==
    \E i, j \in 1..Len(confluence_attachments) :
        i # j /\ confluence_attachments[i] = confluence_attachments[j]

\* a save never removes a (page, attachment id) pair and adds exactly the
\* pairs of the attachments passed
SaveAddsAttachmentKeys ==
    [][StoreCall("save_to_database") =>
         AttachmentKeys(confluence_attachments') =
            AttachmentKeys(confluence_attachments)
               \cup {<< last_call'[1].arg[1], a >> : a \in last_call'[1].arg[2]}]_vars

(***************************************************************************)
(* Properties of the attachment directories (SpecTitles).                  *)
(***************************************************************************)
\* the directory that holds the index file of a page
index_dir(url) ==
    LET local_path == generate_local_path(url, 0)
    IN  SubSeq(local_path, 1, Len(local_path) - 1)

\* the file an attachments/<local_filename> reference of a page's saved
\* HTML resolves to
attachment_ref(url, a) == index_dir(url) \o << "attachments", a >>

\* C36: attachment co-location.  For every page saved with attachments, the
\* file of each attachment lies in the attachments subdirectory of the
\* directory of the page's index file, so that the reference written into
\* the saved HTML resolves to a downloaded file
C36_AttachmentsCoLocated ==
    \A i \in 1..Len(confluence_attachments) :
        LET url == confluence_attachments[i][1]
            a   == confluence_attachments[i][2]
        IN  /\ attachment_path(url, a) = attachment_ref(url, a)
            /\ attachment_ref(url, a) \in files

\* the page addressed by its title was saved with its attachment, whose
\* file is on disk under the directory of the resolved page id
TitlePageSavedWithAttachment ==
    /\ \E i \in 1..Len(confluence_attachments) :
          confluence_attachments[i] = << Guide, "att1" >>
    /\ generate_local_path(Guide, 1) \in files
    /\ attachment_path(Guide, "att1") \in files
    /\ attachment_ref(Guide, "att1") \notin files

\* co-location holds for the pages whose URL carries the id as /pages/<id>
CoLocatedUnderPagesURLs ==
    \A i \in 1..Len(confluence_attachments) :
        LET url == confluence_attachments[i][1]
            a   == confluence_attachments[i][2]
        IN  extract_page_identifier(url) # NULL
               => /\ attachment_path(url, a) = attachment_ref(url, a)
                  /\ attachment_ref(url, a) \in files

(***************************************************************************)
(* Properties of the in-memory set of downloaded URLs (Spec).              *)
(***************************************************************************)
\* the URL is recorded as completed in the Store: a row of it is completed
\* or it has a document row
RecordedCompleted(c) == StoreCompleted(c) \/ HasDocument(c)

\* C37: cache consistency.  Every URL of the in-memory set downloaded_urls
\* is recorded as completed in the Store, and a step that adds a URL to the
\* set is taken only when mark_url_completed has recorded it
C37_CacheWithinStore ==
    /\ [](\A c \in downloaded_urls : RecordedCompleted(c))
    /\ [][\A c \in downloaded_urls' \ downloaded_urls : RecordedCompleted(c)]_vars

\* a worker has put its URL into downloaded_urls and has not yet called
\* mark_url_completed: the URL is in the set and the Store does not record it
AddedBeforeMarked ==
    \E k \in 1..Len(futures) :
        /\ futures[k].pc = "mark"
        /\ normalize_url(futures[k].url) \in downloaded_urls
        /\ ~RecordedCompleted(normalize_url(futures[k].url))

\* outside the window between the two statements of a worker the set lies
\* within the URLs the Store records as completed
CacheWithinStoreOutsideWindow ==
    \A c \in downloaded_urls :
        \/ RecordedCompleted(c)
        \/ \E k \in 1..Len(futures) :
              futures[k].pc = "mark" /\ normalize_url(futures[k].url) = c

(***************************************************************************)
(* Properties of the downloaded counter (SpecTwins).                       *)
(***************************************************************************)
\* C38: counter agreement.  When a run that started on an empty Store and
\* was not interrupted has terminated, the downloaded counter equals the
\* number of DownloadedDocument rows (both read up to StatCap, the value at
\* which the modelled counter saturates)
C38_CounterAgreesWithDocuments ==
    phase = "finished" /\ epoch = 0
       => stats.urls_downloaded = StatValue(Cardinality(downloaded_documents))

\* a run without interruption and without a failed job has terminated with
\* one document row and a downloaded counter of two: the page was fetched
\* and counted twice
CountedTwiceOneDocument ==
    /\ phase = "finished" /\ epoch = 0 /\ ~any_failed
    /\ Cardinality(downloaded_documents) = 1
    /\ stats.urls_downloaded = 2

\* the downloaded counter of a terminated uninterrupted run is never below
\* the number of document rows
CounterCoversDocuments ==
    phase = "finished" /\ epoch = 0
       => stats.urls_downloaded >= StatValue(Cardinality(downloaded_documents))

(***************************************************************************)
(* Properties of the final set of completed URLs (SpecRace).               *)
(***************************************************************************)
\* the clean URLs a link path of at most n links leads to from the start URL
RECURSIVE PathReach(_)
PathReach(n) ==
    IF n = 0 THEN {normalize_url(start_url_of(site))}
    ELSE LET near == PathReach(n - 1)
         IN  near \cup UNION {{normalize_url(LinksOf(c)[i]) :
                                  i \in 1..Len(LinksOf(c))} : c \in near}

\* C39: interleaving independence.  When no fetch fails and the run is not
\* interrupted, the final set of completed URLs is fixed by the site and the
\* configuration, whatever the number of workers and the order in which
\* they finish: it is the set of the admissible pages that a link path of at
\* most max_depth links leads to from the start URL
C39_InterleavingIndependent ==
    (phase = "finished" /\ epoch = 0 /\ ~any_failed)
        => CompletedSet = {c \in PathReach(max_depth) :
                              /\ ~is_space_url(c)
                              /\ url_policy(CrawlConfig, c, 0)}

\* two workers, max_depth 1: the run has ended without a failure and has
\* completed the page two links away from the start page
TwoWorkersReachFurther ==
    /\ phase = "finished" /\ epoch = 0 /\ ~any_failed
    /\ max_workers = 2 /\ max_depth = 1
    /\ CompletedSet = {Home, PgA, PgP}

\* with one worker the final set of an uninterrupted run without failures is
\* the one the link paths give
OneWorkerFinal ==
    (phase = "finished" /\ epoch = 0 /\ ~any_failed /\ max_workers = 1)
        => CompletedSet = {c \in PathReach(max_depth) :
                              /\ ~is_space_url(c)
                              /\ url_policy(CrawlConfig, c, 0)}

\* two workers, max_depth 1: another run of the same configuration has
\* ended without a failure with the set the link paths give
TwoWorkersStayNear ==
    /\ phase = "finished" /\ epoch = 0 /\ ~any_failed
    /\ max_workers = 2 /\ max_depth = 1
    /\ CompletedSet = {Home, PgA}

(***************************************************************************)
(* Properties of the local paths (SpecTitles).                             *)
(***************************************************************************)
\* C40: path injectivity.  Two DownloadedDocument rows of different clean
\* URLs never have the same local_path
C40_PathInjective ==
    \A r1, r2 \in downloaded_documents :
        r1.clean_url # r2.clean_url => r1.local_path # r2.local_path

\* the two pages with the title Guide are completed, their document rows
\* name the same index file
SameTitleSamePath ==
    /\ StoreCompleted(Guide) /\ StoreCompleted(OpsGuide)
    /\ \E r1, r2 \in downloaded_documents :
          /\ r1.clean_url = Guide /\ r2.clean_url = OpsGuide
          /\ r1.local_path = r2.local_path

\* the rows of the pages whose URL carries a page id have paths of their own
PathInjectiveWithIds ==
    \A r1, r2 \in downloaded_documents :
        /\ r1.clean_url # r2.clean_url
        /\ extract_page_identifier(r1.clean_url) # NULL
        /\ extract_page_identifier(r2.clean_url) # NULL
        => r1.local_path # r2.local_path

====
